---- MODULE Spec2Model ----
(***************************************************************************)
(* polymarket-mcp: the stdin/stdout protocol dispatcher (src/src/main.rs)  *)
(* on top of the caching, retrying market client                           *)
(* (src/src/polymarket_client.rs).                                         *)
(*                                                                         *)
(* The specifications share the client's actions:                          *)
(*   Spec          the binary: main's read loop drives handle_mcp_request, *)
(*                 which drives the server operations and the client;      *)
(*                 SpecLive adds that its steps are taken.                 *)
(*   SpecResource  the binary fed resources/read lines only.               *)
(*   SpecClient    the library: a caller invokes PolymarketClient's public *)
(*                 operations one after the other, as tests/ do.           *)
(*   SpecSearch    the library caller making collection queries only.      *)
(*   SpecRefresh   the library caller on a client that has fetched m1.     *)
(*   SpecFetch     the fetcher alone: make_request_with_retry on one URL;  *)
(*                 SpecFetchLive adds that its steps are taken.            *)
(*   SpecBatch     one get_markets_batch call: the futures of a chunk run  *)
(*                 as tasks of their own; SpecBatchLive adds that their    *)
(*                 steps are taken.                                        *)
(*   SpecChunks    one get_markets_batch call of nine ids and more, its    *)
(*                 futures polled in join_all's order.                     *)
(*   SpecPure      search_markets' and get_market_prices' own part, on     *)
(*                 what their fetch returned.                              *)
(* The await points of the code are the step boundaries; the code between  *)
(* two await points is one atomic step.  One HTTP exchange (send, status,  *)
(* body) is the two steps SendRequest and ReceiveResponse.  The clock      *)
(* advances in SpecResource, SpecClient, SpecSearch, SpecRefresh and       *)
(* SpecFetch; the others run at one instant.                               *)
(***************************************************************************)
EXTENDS Integers, Sequences, FiniteSets, TLC

(***************************************************************************)
(* Bounds of the model.                                                    *)
(***************************************************************************)
\* lines main reads from stdin before the stream ends
MaxLines == 2
\* largest configured api.max_retries
MaxRetries == 3
\* largest configured cache TTL, in clock ticks
MaxTtl == 1
\* the clock stops advancing here
MaxTime == 2
\* operations the library caller invokes
MaxCalls == 2
\* ids one get_markets_batch call is given
MaxIds == 2
\* longest keyword, page of markets and outcome list the filters are given
MaxLen == 2
\* the ids a batch has beyond one full chunk
MaxMore == 1

(***************************************************************************)
(* JSON values of a request line, as serde_json::Value::get / as_str /     *)
(* as_u64 see them.  A field is absent, present but not of the wanted      *)
(* type, or present with a value.                                          *)
(***************************************************************************)
Absent == "<absent>"
NonString == "<non-string>"
\* Option<T>: None is <<>>, Some(x) is <<x>>
None == <<>>
Some(x) == <<x>>
IsSome(o) == o # <<>>
Unwrap(o) == o[1]

\* the "limit" argument values the model feeds in (JSON text of the value)
LimitValues == {Absent, NonString, "5", "4294967301"}

\* Value::as_u64: Some for a non-negative integer, None for anything else.
\* A u64 is its two 32-bit halves: the value is hi * 2^32 + lo.
as_u64(v) ==
    CASE v = "5" -> Some([hi |-> 0, lo |-> 5])
      [] v = "4294967301" -> Some([hi |-> 1, lo |-> 5])
      [] OTHER -> None

\* `l as u32`: the low 32 bits
as_u32(l) == l.lo

\* arguments.get("limit").and_then(|v| v.as_u64()).map(|l| l as u32)
LimitArg(v) ==
    IF v = Absent THEN None
    ELSE IF IsSome(as_u64(v)) THEN Some(as_u32(Unwrap(as_u64(v)))) ELSE None

\* Value::as_str on a field: Some only for a JSON string
as_str(v) == IF v \in {Absent, NonString} THEN None ELSE Some(v)

\* request.get("id").cloned() placed in json!({"id": id}): None serializes as null
EchoId(id) == IF id = Absent THEN "null" ELSE id

NoParams ==
    [name |-> Absent, uri |-> Absent, market_id |-> Absent,
     keyword |-> Absent, limit |-> Absent]

KnownMethods ==
    {"initialize", "tools/list", "tools/call", "resources/list",
     "resources/read", "prompts/list", "prompts/get"}

\* method.starts_with("notifications/")
IsNotification(method) ==
    method \in {"notifications/initialized", "notifications/cancelled"}

\* uri.starts_with("market:") and uri.strip_prefix("market:")
StartsWithMarket(uri) == uri \in {"market:m1", "market:m2"}
StripMarketPrefix(uri) == IF uri = "market:m1" THEN "m1" ELSE "m2"

(***************************************************************************)
(* Strings the code lowercases and searches are sequences of characters.  *)
(***************************************************************************)
Chars(s) ==
    CASE s = "el" -> <<"e", "l">>
      [] s = "EL" -> <<"E", "L">>
      [] s = "x" -> <<"x">>
      [] OTHER -> <<>>

\* char::to_lowercase on the model's alphabet
LowerChar(c) ==
    CASE c = "E" -> "e"
      [] c = "L" -> "l"
      [] c = "X" -> "x"
      [] c = "P" -> "p"
      [] OTHER -> c

\* str::to_lowercase
to_lowercase(s) == [i \in DOMAIN s |-> LowerChar(s[i])]

\* str::contains
contains(hay, needle) ==
    \E i \in 1..(Len(hay) + 1) :
        /\ i + Len(needle) - 1 <= Len(hay)
        /\ SubSeq(hay, i, i + Len(needle) - 1) = needle

\* str::parse::<f64> on the price strings upstream sends
ParsesAsF64(s) == s \in {"0.6", "0.4", "1"}

(***************************************************************************)
(* Markets as upstream serves them (models.rs Market, the fields the code  *)
(* reads).                                                                 *)
(***************************************************************************)
MarketA(id) ==
    [id |-> id, question |-> <<"E", "l", "x">>, description |-> None,
     category |-> Some(<<"p">>), outcomes |-> <<"Yes", "No">>,
     outcome_prices |-> <<"0.6", "0.4">>]

MarketB(id) ==
    [id |-> id, question |-> <<"q">>, description |-> Some(<<"e", "L">>),
     category |-> None, outcomes |-> <<"Yes", "No">>,
     outcome_prices |-> <<"n/a", "1">>]

\* bodies upstream may answer GET {base_url}/markets/{id} with
MarketBodies(id) == {MarketA(id), MarketB(id)}

\* bodies upstream may answer GET {base_url}/markets{query} with
ListBodies == {<<>>, <<MarketA("m1"), MarketB("m2")>>}

(***************************************************************************)
(* Query parameters and the client's operations.                           *)
(***************************************************************************)
\* impl Default for MarketsQueryParams (the fields that are ever Some)
DefaultParams ==
    [limit |-> Some(20), offset |-> Some(0), order |-> Some("liquidity"),
     ascending |-> Some(FALSE), active |-> Some(TRUE), closed |-> None,
     archived |-> Some(FALSE)]

\* limit.or(Some(d))
OrSome(limit, d) == IF IsSome(limit) THEN limit ELSE Some(d)

SearchParams(limit) == [DefaultParams EXCEPT !.limit = OrSome(limit, 20)]

TrendingParams(limit) ==
    [DefaultParams EXCEPT !.limit = OrSome(limit, 10),
                          !.order = Some("volume"),
                          !.ascending = Some(FALSE),
                          !.active = Some(TRUE)]

\* a bug: the limit is left to Default::default()
ActiveParamsDefaultLimit(limit) ==
    [DefaultParams EXCEPT !.limit = OrSome(limit, 20)]
ActiveParams(limit) ==
    [DefaultParams EXCEPT !.limit = OrSome(limit, 50),
                          !.active = Some(TRUE),
                          !.archived = Some(FALSE)]

ParamOrder ==
    <<"limit", "offset", "order", "ascending", "active", "closed", "archived">>

\* MarketsQueryParams::to_query_string: only the parameters that are present,
\* in declaration order
to_query_string(params) ==
    SelectSeq([i \in 1..Len(ParamOrder) |->
                  <<ParamOrder[i], params[ParamOrder[i]]>>],
              LAMBDA kv : IsSome(kv[2]))

\* format!("markets_{}", serde_json::to_string(&query_params)): every field
\* is serialized, None as null
\* a bug: the key is the namespace prefix alone
MarketsCacheKeyPrefixOnly(params) == <<"markets_", <<>>>>
MarketsCacheKey(params) == <<"markets_", params>>

\* one cache-checked fetch: get_markets(Some(params)) or get_market_by_id(id)
MarketsQuery(params) ==
    [kind |-> "markets", key |-> MarketsCacheKey(params),
     url |-> <<"/markets", to_query_string(params)>>]

MarketQuery(market_id) ==
    [kind |-> "market", key |-> market_id, url |-> <<"/markets/", market_id>>]

\* make_request_with_retry called on its own
RawQuery == [kind |-> "raw", key |-> "", url |-> <<"/raw", "">>]

NoQuery == [kind |-> "none", key |-> "", url |-> <<"", "">>]

\* the public operations of PolymarketClient, as values
OpGetMarkets(params) ==
    [op |-> "get_markets", query |-> MarketsQuery(params), keyword |-> <<>>]
OpGetMarketById(id) ==
    [op |-> "get_market_by_id", query |-> MarketQuery(id), keyword |-> <<>>]
OpSearchMarkets(keyword, limit) ==
    [op |-> "search_markets", query |-> MarketsQuery(SearchParams(limit)),
     keyword |-> keyword]
OpGetMarketPrices(id) ==
    [op |-> "get_market_prices", query |-> MarketQuery(id), keyword |-> <<>>]
OpGetTrendingMarkets(limit) ==
    [op |-> "get_trending_markets", query |-> MarketsQuery(TrendingParams(limit)),
     keyword |-> <<>>]
OpGetActiveMarkets(limit) ==
    [op |-> "get_active_markets", query |-> MarketsQuery(ActiveParams(limit)),
     keyword |-> <<>>]
OpRaw == [op |-> "make_request_with_retry", query |-> RawQuery, keyword |-> <<>>]

\* Result<T>
Ok(v) == [ok |-> TRUE, data |-> v]
Err(e) == [ok |-> FALSE, error |-> e]

\* PolymarketError constructors and the Display text of each kind
api_error(message) == [kind |-> "ApiError", message |-> message]
network_error(message) == [kind |-> "NetworkError", message |-> message]
deserialization_error(message) ==
    [kind |-> "DeserializationError", message |-> message]

ErrorDisplay(e) ==
    CASE e.kind = "ApiError" ->
            <<"API request failed: ", e.message, " (request_id: uuid)">>
      [] e.kind = "NetworkError" ->
            <<"Network error: ", e.message, " (request_id: uuid)">>
      [] e.kind = "DeserializationError" ->
            <<"Deserialization error: ", e.message, " (request_id: uuid)">>
      [] OTHER -> <<e.message>>

\* a bug: the market's texts are compared as they are
MatchesKeywordCaseSensitive(market, keyword_lower) ==
    \/ contains(market.question, keyword_lower)
    \/ /\ IsSome(market.description)
       /\ contains(Unwrap(market.description), keyword_lower)
    \/ /\ IsSome(market.category)
       /\ contains(Unwrap(market.category), keyword_lower)
\* search_markets' filter
MatchesKeyword(market, keyword_lower) ==
    \/ contains(to_lowercase(market.question), keyword_lower)
    \/ /\ IsSome(market.description)
       /\ contains(to_lowercase(Unwrap(market.description)), keyword_lower)
    \/ /\ IsSome(market.category)
       /\ contains(to_lowercase(Unwrap(market.category)), keyword_lower)

FilterMarkets(markets, keyword) ==
    SelectSeq(markets, LAMBDA m : MatchesKeyword(m, to_lowercase(keyword)))

\* get_market_prices' loop over outcomes
RECURSIVE PricesFrom(_, _, _)
PricesFrom(market, market_id, i) ==
    IF i > Len(market.outcomes) THEN <<>>
    ELSE (IF /\ i <= Len(market.outcome_prices)
             /\ ParsesAsF64(market.outcome_prices[i])
          THEN <<[market_id |-> market_id, outcome_id |-> <<"outcome_", i - 1>>,
                  price |-> market.outcome_prices[i]]>>
          ELSE <<>>)
         \o PricesFrom(market, market_id, i + 1)

\* what an operation makes of the result of its cache-checked fetch
Finish(cop, result) ==
    IF ~result.ok THEN result
    ELSE CASE cop.op = "search_markets" ->
                 Ok(FilterMarkets(result.data, cop.keyword))
           [] cop.op = "get_market_prices" ->
                 Ok(PricesFrom(result.data, cop.query.key, 1))
           [] OTHER -> result

(***************************************************************************)
(* State.                                                                  *)
(***************************************************************************)
VARIABLES
    config,               \* Arc<Config>: fixed at construction
    now,                  \* the clock, in ticks
    market_cache,         \* PolymarketClient.market_cache: key -> CacheEntry
    single_market_cache,  \* PolymarketClient.single_market_cache
    read_guards,          \* cache name -> tasks holding a read guard on it
    metrics,              \* PolymarketClient.metrics
    task,                 \* per task: its position in get_markets /
                          \* get_market_by_id / make_request_with_retry
    resource_cache,       \* PolymarketMcpServer.resource_cache
    server_metrics,       \* PolymarketMcpServer.metrics
    mpc,                  \* main's position in its read loop
    line_no,              \* lines read from stdin so far
    undecoded,            \* lines dropped because they did not decode
    request,              \* the decoded line being handled
    call,                 \* the server or client operation in progress
    response,             \* Option: what handle_mcp_request returned
    output,               \* the lines written to stdout
    ncalls,               \* operations the library caller has completed
    prev                  \* Option: the last completed operation, as the
                          \* caller saw it

clientVars ==
    <<now, market_cache, single_market_cache, read_guards,
      metrics, task>>
serverVars ==
    <<resource_cache, server_metrics, mpc, line_no, undecoded, request,
      response, output>>
callerVars == <<ncalls, prev>>
vars == <<config, clientVars, serverVars, call, callerVars>>

\* the task that runs main (and the library caller's operation), and the
\* futures get_markets_batch joins, one per id of a chunk
\* `const BATCH_SIZE: usize = 10` of get_markets_batch
BATCH_SIZE == 10

\* the operation's own future, and the futures of one chunk of a batch
MainTask == 0
Tasks == MainTask..BATCH_SIZE

\* Metrics::new()
NewMetrics ==
    [api_requests_total |-> 0, api_requests_failed |-> 0, cache_hits |-> 0,
     cache_misses |-> 0, avg_num |-> 0, avg_den |-> 1, avg_updates |-> 0]

increment_api_requests(m) ==
    [m EXCEPT !.api_requests_total = @ + 1]
\* a bug: a failed request is counted twice
increment_api_failures_twice(m) ==
    [m EXCEPT !.api_requests_failed = @ + 2]
increment_api_failures(m) ==
    [m EXCEPT !.api_requests_failed = @ + 1]
increment_cache_hits(m) == [m EXCEPT !.cache_hits = @ + 1]
increment_cache_misses(m) == [m EXCEPT !.cache_misses = @ + 1]

RECURSIVE Gcd(_, _)
Gcd(a, b) == IF b = 0 THEN a ELSE Gcd(b, a % b)

\* Metrics::update_avg_response_time; the average is the exact fraction
\* avg_num / avg_den in lowest terms, and avg_updates (a history of the
\* calls, not a field of Metrics) counts the updates
update_avg_response_time(m, sample) ==
    IF m.api_requests_total > 0
    THEN LET num == m.avg_num * (m.api_requests_total - 1) + sample * m.avg_den
             den == m.avg_den * m.api_requests_total
             g == Gcd(num, den)
         IN [m EXCEPT !.avg_num = num \div g,
                      !.avg_den = den \div g,
                      !.avg_updates = @ + 1]
    ELSE [m EXCEPT !.avg_num = sample, !.avg_den = 1, !.avg_updates = @ + 1]

\* CacheEntry::new and CacheEntry::is_expired
NewCacheEntry(data) == [data |-> data, timestamp |-> now]
\* a bug: an entry exactly ttl old counts as expired
is_expired_at_ttl(entry, ttl) == now - entry.timestamp >= ttl
\* a bug: an entry lives one second longer than the TTL
is_expired_late(entry, ttl) == now - entry.timestamp > ttl + 1
\* CacheEntry::is_expired
is_expired(entry, ttl) == now - entry.timestamp > ttl

\* a bug: the value of a key that is present stays (entry().or_insert())
InsertIfAbsent(map, key, value) ==
    [k \in DOMAIN map \cup {key} |->
        IF k \in DOMAIN map THEN map[k] ELSE value]
\* HashMap::insert
Insert(map, key, value) ==
    [k \in DOMAIN map \cup {key} |-> IF k = key THEN value ELSE map[k]]

EmptyMap == [k \in {} |-> None]

IdleFrame ==
    [pc |-> "idle", query |-> NoQuery, attempt |-> 0, last_error |-> None,
     start_time |-> 0, fetch_result |-> None, ret |-> None, events |-> <<>>,
     failures |-> <<>>]

CacheName(query) ==
    IF query.kind = "markets" THEN "market_cache" ELSE "single_market_cache"
CacheOf(query) ==
    IF query.kind = "markets" THEN market_cache ELSE single_market_cache

\* a bug: the entry is returned whatever its age
AnyEntry(query) == query.key \in DOMAIN CacheOf(query)
\* the entry a lookup returns: present and not expired
FreshEntry(query) ==
    /\ query.key \in DOMAIN CacheOf(query)
    /\ ~is_expired(CacheOf(query)[query.key], config.cache_ttl)

(***************************************************************************)
(* get_markets / get_market_by_id, by task t.                              *)
(***************************************************************************)
\* the caller starts the cache-checked fetch (or the bare fetch) of `query`
QueryFrame(query) ==
    [IdleFrame EXCEPT !.pc = IF query.kind = "raw" THEN "fetch" ELSE "start",
                      !.query = query]
StartQuery(t, query) == task' = [task EXCEPT ![t] = QueryFrame(query)]

\* a bug: the read guard is bound outside the `if` block and lives on
CacheLookupKeepsGuard(t) ==
    /\ task[t].pc = "start"
    /\ task' = [task EXCEPT ![t].pc = IF config.cache_enabled
                                         /\ FreshEntry(task[t].query)
                                      THEN "hit" ELSE "miss"]
    /\ read_guards' =
          IF config.cache_enabled
          THEN [read_guards EXCEPT ![CacheName(task[t].query)] = @ \cup {t}]
          ELSE read_guards
    /\ UNCHANGED <<config, now, market_cache,
                   single_market_cache, metrics, serverVars, call, callerVars>>

\* if cache.enabled: take the read guard, look the key up, test is_expired
CacheLookup(t) ==
    /\ task[t].pc = "start"
    /\ IF config.cache_enabled /\ FreshEntry(task[t].query)
       THEN /\ task' = [task EXCEPT ![t].pc = "hit"]
            /\ read_guards' =
                  [read_guards EXCEPT ![CacheName(task[t].query)] = @ \cup {t}]
       ELSE /\ task' = [task EXCEPT ![t].pc = "miss"]
            /\ UNCHANGED read_guards
    /\ UNCHANGED <<config, now, market_cache,
                   single_market_cache, metrics, serverVars, call, callerVars>>

\* a bug: the read guard of the hit path is never dropped
RecordCacheHitKeepsGuard(t) ==
    /\ task[t].pc = "hit"
    /\ metrics' = increment_cache_hits(metrics)
    /\ task' = [task EXCEPT
                  ![t].pc = "ret",
                  ![t].ret = Some(Ok(CacheOf(task[t].query)[task[t].query.key].data))]
    /\ UNCHANGED <<config, now, market_cache, single_market_cache,
                   read_guards, serverVars, call, callerVars>>

\* the hit path: increment_cache_hits under the metrics write lock, return the
\* clone of the entry's data, drop the read guard
RecordCacheHit(t) ==
    /\ task[t].pc = "hit"
    /\ metrics' = increment_cache_hits(metrics)
    /\ task' = [task EXCEPT
                  ![t].pc = "ret",
                  ![t].ret = Some(Ok(CacheOf(task[t].query)[task[t].query.key].data))]
    /\ read_guards' =
          [read_guards EXCEPT ![CacheName(task[t].query)] = @ \ {t}]
    /\ UNCHANGED <<config, now, market_cache,
                   single_market_cache, serverVars, call, callerVars>>

\* the miss path: increment_cache_misses, then make_request_with_retry is called
RecordCacheMiss(t) ==
    /\ task[t].pc = "miss"
    /\ metrics' = increment_cache_misses(metrics)
    /\ task' = [task EXCEPT ![t].pc = "fetch"]
    /\ UNCHANGED <<config, now, market_cache,
                   single_market_cache, read_guards, serverVars, call, callerVars>>

\* a bug: the insert does not wait for the readers (a lock that does not
\* exclude them)
CachePutUnguarded(t) ==
    /\ task[t].pc = "put"
    /\ LET q == task[t].query
           entry == NewCacheEntry(Unwrap(task[t].fetch_result).data)
       IN /\ market_cache' =
                IF q.kind = "markets" THEN Insert(market_cache, q.key, entry)
                ELSE market_cache
          /\ single_market_cache' =
                IF q.kind = "market" THEN Insert(single_market_cache, q.key, entry)
                ELSE single_market_cache
    /\ task' = [task EXCEPT ![t].pc = "ret", ![t].ret = task[t].fetch_result]
    /\ UNCHANGED <<config, now, read_guards, metrics,
                   serverVars, call, callerVars>>

\* after a successful fetch with cache.enabled: take the write guard, insert
CachePut(t) ==
    /\ task[t].pc = "put"
    /\ read_guards[CacheName(task[t].query)] = {}
    /\ LET q == task[t].query
           entry == NewCacheEntry(Unwrap(task[t].fetch_result).data)
       IN /\ market_cache' =
                IF q.kind = "markets" THEN Insert(market_cache, q.key, entry)
                ELSE market_cache
          /\ single_market_cache' =
                IF q.kind = "market" THEN Insert(single_market_cache, q.key, entry)
                ELSE single_market_cache
    /\ task' = [task EXCEPT ![t].pc = "ret", ![t].ret = task[t].fetch_result]
    /\ UNCHANGED <<config, now, read_guards, metrics,
                   serverVars, call, callerVars>>

(***************************************************************************)
(* make_request_with_retry, by task t.                                     *)
(***************************************************************************)
\* what one HTTP exchange can come to, other than a 2xx body that decodes: a
\* non-2xx status, a transport failure of send(), a failure reading the body,
\* a body that does not decode
AttemptFailures == {"status", "send", "body", "json"}

\* the error captured for a failed attempt
CapturedError(failure) ==
    CASE failure = "status" -> api_error("HTTP error")
      [] failure = "send" -> network_error("Request error")
      [] failure = "body" -> network_error("Response reading error")
      [] OTHER -> deserialization_error("JSON parsing error")

\* the bodies that decode as T for this URL
Bodies(query) ==
    CASE query.kind = "markets" -> ListBodies
      [] query.kind = "market" ->
            IF mpc = "chunks" THEN {MarketA(query.key)}
            ELSE MarketBodies(query.key)
      [] OTHER -> {"body"}

\* base_delay.as_millis() as u64 * (1 << attempt)
RECURSIVE Pow2(_)
Pow2(n) == IF n = 0 THEN 1 ELSE 2 * Pow2(n - 1)
\* a bug: the exponent counts the attempts from 0
RetryDelayFromZero(attempt) == config.retry_delay * Pow2(attempt - 1)
RetryDelay(attempt) == config.retry_delay * Pow2(attempt)

\* a bug: the loop body runs once before max_retries is looked at
BeginRequestOnceAtLeast(t) ==
    /\ task[t].pc = "fetch"
    /\ metrics' = increment_api_requests(metrics)
    /\ task' = [task EXCEPT
                  ![t].pc = "send",
                  ![t].attempt = 1,
                  ![t].last_error = None,
                  ![t].start_time = now]
    /\ UNCHANGED <<config, now, market_cache,
                   single_market_cache, read_guards, serverVars, call, callerVars>>

\* increment_api_requests, then the loop `for attempt in 1..=max_retries` starts
BeginRequest(t) ==
    /\ task[t].pc = "fetch"
    /\ metrics' = increment_api_requests(metrics)
    /\ task' = [task EXCEPT
                  ![t].pc = IF config.max_retries >= 1 THEN "send" ELSE "exhausted",
                  ![t].attempt = 1,
                  ![t].last_error = None,
                  ![t].start_time = now]
    /\ UNCHANGED <<config, now, market_cache,
                   single_market_cache, read_guards, serverVars, call, callerVars>>

\* self.client.get(url).send(): the request leaves
SendRequest(t) ==
    /\ task[t].pc = "send"
    /\ task' = [task EXCEPT ![t].pc = "http",
                            ![t].events = Append(@, <<"attempt", task[t].attempt>>)]
    /\ UNCHANGED <<config, now, market_cache, single_market_cache,
                   read_guards, metrics, serverVars, call, callerVars>>

\* the failures upstream is made to produce: all of them against the fetcher
\* alone, one of each error kind of the retry loop's two arms elsewhere
Failures ==
    CASE mpc = "fetcher" -> AttemptFailures
      [] mpc \in {"batch", "chunks"} -> {"status"}
      [] OTHER -> {"status", "json"}

\* a bug: the first captured error is kept
AfterFailureKeepFirst(t, failure) ==
    [task EXCEPT ![t].last_error = IF IsSome(@) THEN @
                                   ELSE Some(CapturedError(failure)),
                 ![t].failures = Append(@, failure),
                 ![t].pc = IF task[t].attempt < config.max_retries
                           THEN "sleep" ELSE "exhausted"]

\* a bug: a sleep and one more attempt after the last one
AfterFailureOnceMore(t, failure) ==
    [task EXCEPT ![t].last_error = Some(CapturedError(failure)),
                 ![t].failures = Append(@, failure),
                 ![t].pc = IF task[t].attempt <= config.max_retries
                           THEN "sleep" ELSE "exhausted"]

\* the loop's step after a failed attempt: sleep if attempt < max_retries,
\* else the loop is over
AfterFailure(t, failure) ==
    [task EXCEPT ![t].last_error = Some(CapturedError(failure)),
                 ![t].failures = Append(@, failure),
                 ![t].pc = IF task[t].attempt < config.max_retries
                           THEN "sleep" ELSE "exhausted"]

\* a bug: the loop has no `return` on success and goes on to its next turn
ReceiveResponseGoesOn(t) ==
    /\ task[t].pc = "http"
    /\ \/ \E body \in Bodies(task[t].query) :
             task' = [task EXCEPT
                        ![t].pc = IF task[t].attempt < config.max_retries
                                  THEN "sleep" ELSE "decoded",
                        ![t].fetch_result = Some(Ok(body))]
       \/ \E failure \in Failures :
             task' = AfterFailure(t, failure)
    /\ UNCHANGED <<config, now, market_cache,
                   single_market_cache, read_guards, metrics, serverVars,
                   call, callerVars>>

\* the exchange ends: a 2xx body that decodes, or one of the failures
ReceiveResponse(t) ==
    /\ task[t].pc = "http"
    /\ \/ \E body \in Bodies(task[t].query) :
             task' = [task EXCEPT ![t].pc = "decoded",
                                  ![t].fetch_result = Some(Ok(body))]
       \/ \E failure \in Failures :
             task' = AfterFailure(t, failure)
    /\ UNCHANGED <<config, now, market_cache,
                   single_market_cache, read_guards, metrics, serverVars,
                   call, callerVars>>

\* Ok(data): update_avg_response_time, return Ok(data); the caller then
\* inserts it into its cache if cache.enabled
RecordSuccess(t) ==
    /\ task[t].pc = "decoded"
    /\ metrics' = update_avg_response_time(metrics, now - task[t].start_time)
    /\ task' = IF config.cache_enabled /\ task[t].query.kind # "raw"
               THEN [task EXCEPT ![t].pc = "put"]
               ELSE [task EXCEPT ![t].pc = "ret",
                                 ![t].ret = task[t].fetch_result]
    /\ UNCHANGED <<config, now, market_cache,
                   single_market_cache, read_guards, serverVars, call, callerVars>>

\* tokio::time::sleep(delay) is over; the next attempt follows
Sleep(t) ==
    /\ task[t].pc = "sleep"
    /\ task' = [task EXCEPT
                  ![t].pc = "send",
                  ![t].attempt = @ + 1,
                  ![t].events = Append(@, <<"sleep", RetryDelay(task[t].attempt)>>)]
    /\ UNCHANGED <<config, now, market_cache,
                   single_market_cache, read_guards, metrics, serverVars,
                   call, callerVars>>

\* a bug: the failed call drops the entry of its key
ExhaustedEvicts(t) ==
    /\ task[t].pc = "exhausted"
    /\ metrics' = increment_api_failures(metrics)
    /\ LET error == IF IsSome(task[t].last_error)
                    THEN Unwrap(task[t].last_error)
                    ELSE network_error("All retry attempts failed")
       IN task' = [task EXCEPT ![t].pc = "ret",
                               ![t].fetch_result = Some(Err(error)),
                               ![t].ret = Some(Err(error))]
    /\ LET q == task[t].query
           Evict(map) == [k \in DOMAIN map \ {q.key} |-> map[k]]
       IN /\ market_cache' =
                IF q.kind = "markets" THEN Evict(market_cache) ELSE market_cache
          /\ single_market_cache' =
                IF q.kind = "market" THEN Evict(single_market_cache)
                ELSE single_market_cache
    /\ UNCHANGED <<config, now, read_guards, serverVars, call, callerVars>>

\* a bug: the failed call is not counted
ExhaustedUncounted(t) ==
    /\ task[t].pc = "exhausted"
    /\ LET error == IF IsSome(task[t].last_error)
                    THEN Unwrap(task[t].last_error)
                    ELSE network_error("All retry attempts failed")
       IN task' = [task EXCEPT ![t].pc = "ret",
                               ![t].fetch_result = Some(Err(error)),
                               ![t].ret = Some(Err(error))]
    /\ UNCHANGED <<config, now, market_cache, single_market_cache,
                   read_guards, metrics, serverVars, call, callerVars>>

\* after the loop: increment_api_failures, return Err(last_error or the
\* synthesized "All retry attempts failed"); the caller's `?` passes it on
Exhausted(t) ==
    /\ task[t].pc = "exhausted"
    /\ metrics' = increment_api_failures(metrics)
    /\ LET error == IF IsSome(task[t].last_error)
                    THEN Unwrap(task[t].last_error)
                    ELSE network_error("All retry attempts failed")
       IN task' = [task EXCEPT ![t].pc = "ret",
                               ![t].fetch_result = Some(Err(error)),
                               ![t].ret = Some(Err(error))]
    /\ UNCHANGED <<config, now, market_cache,
                   single_market_cache, read_guards, serverVars, call, callerVars>>

\* the clock is read at the start of a fetch, at its successful end, at a
\* cache lookup and at a cache insert; it advances while an HTTP exchange is
\* under way (which stands for the sleeps between exchanges too) and while
\* nothing is in progress
TimeCanPass ==
    \/ \E t \in Tasks : task[t].pc = "http"
    \/ (\A t \in Tasks : task[t].pc = "idle") /\ mpc \in {"read", "caller", "fetcher", "searcher"}

Tick ==
    /\ now < MaxTime
    /\ TimeCanPass
    /\ now' = now + 1
    /\ UNCHANGED <<config, market_cache, single_market_cache,
                   read_guards, metrics, task, serverVars, call, callerVars>>

ClientStep(t) ==
    \/ CacheLookup(t)
    \/ RecordCacheHit(t)
    \/ RecordCacheMiss(t)
    \/ BeginRequest(t)
    \/ SendRequest(t)
    \/ ReceiveResponse(t)
    \/ RecordSuccess(t)
    \/ Sleep(t)
    \/ Exhausted(t)
    \/ CachePut(t)

(***************************************************************************)
(* The library caller: one public operation of PolymarketClient after the  *)
(* other (tests/integration_test.rs), or make_request_with_retry alone.    *)
(***************************************************************************)
NoCall == [active |-> FALSE]

NoRequest == [method |-> Absent, id |-> Absent, params |-> NoParams]

MarketIds == {"m1", "m2"}

LibraryOps ==
    {OpGetMarketById(id) : id \in MarketIds}
    \cup {OpGetActiveMarkets(limit) : limit \in {None, Some(5)}}

\* the collection queries: search_markets with two keywords and the default
\* limit, get_active_markets with its own default limit
CollectionOps ==
    {OpSearchMarkets(Chars(keyword), None) : keyword \in {"el", "x"}}
    \cup {OpGetActiveMarkets(None)}

CallerOps ==
    CASE mpc = "fetcher" -> {OpRaw}
      [] mpc = "searcher" -> CollectionOps
      [] OTHER -> LibraryOps

InvokeClient ==
    /\ mpc \in {"caller", "fetcher", "searcher"}
    /\ ~call.active
    /\ ncalls < MaxCalls
    /\ \E cop \in CallerOps :
          /\ call' = [active |-> TRUE, cop |-> cop, start |-> now,
                      requests_before |-> metrics.api_requests_total,
                      metrics_before |-> metrics,
                      caches_before |-> <<market_cache, single_market_cache>>]
          /\ StartQuery(MainTask, cop.query)
    /\ UNCHANGED <<config, now, market_cache,
                   single_market_cache, read_guards, metrics, serverVars, callerVars>>

\* the positions of the GET requests in a task's record of its fetch
Attempts(events) == {i \in DOMAIN events : events[i][1] = "attempt"}
Sleeps(events) == {i \in DOMAIN events : events[i][1] = "sleep"}

\* the operation in progress as the caller sees it once the result is there:
\* hits are the GET requests, fetches the make_request_with_retry calls it made
CompletedCall ==
    [cop |-> call.cop,
     result |-> Finish(call.cop, Unwrap(task[MainTask].ret)),
     start |-> call.start,
     end |-> now,
     hits |-> Cardinality(Attempts(task[MainTask].events)),
     fetches |-> metrics.api_requests_total - call.requests_before]

ReturnClient ==
    /\ mpc \in {"caller", "fetcher", "searcher"}
    /\ call.active
    /\ task[MainTask].pc = "ret"
    /\ prev' = Some(CompletedCall)
    /\ ncalls' = ncalls + 1
    /\ call' = NoCall
    /\ task' = [task EXCEPT ![MainTask] = IdleFrame]
    /\ UNCHANGED <<config, now, market_cache,
                   single_market_cache, read_guards, metrics, serverVars>>

(***************************************************************************)
(* get_markets_batch: the caller's task joins the get_market_by_id futures *)
(* of one chunk; `call` holds the loop's state.                            *)
(***************************************************************************)
\* the id lists the caller passes
BatchIds == UNION {[1..n -> MarketIds] : n \in 0..MaxIds}

\* id lists of one chunk, short or full, and of more than one chunk
AlternatingIds(n) == [i \in 1..n |-> IF i % 2 = 1 THEN "m1" ELSE "m2"]
LongIds == {AlternatingIds(n) : n \in (BATCH_SIZE - 1)..(BATCH_SIZE + MaxMore)}

\* a bug: the chunks are one id short of BATCH_SIZE
ChunkLenShort(ids, pos) ==
    IF Len(ids) - pos + 1 < BATCH_SIZE - 1
    THEN Len(ids) - pos + 1 ELSE BATCH_SIZE - 1
\* market_ids.chunks(BATCH_SIZE): the length of the chunk that starts at pos
ChunkLen(ids, pos) ==
    IF Len(ids) - pos + 1 < BATCH_SIZE THEN Len(ids) - pos + 1 ELSE BATCH_SIZE

\* `for result in results`: the Ok markets are pushed in the order of the
\* futures, the Err ones are logged and skipped
Data(results) == [i \in DOMAIN results |-> results[i].data]
\* a bug: the loop over the results ends at the first Err
SuccessesBeforeError(results) ==
    Data(SubSeq(results, 1,
                Cardinality({i \in DOMAIN results :
                                \A j \in 1..i : results[j].ok})))
Successes(results) == Data(SelectSeq(results, LAMBDA r : r.ok))

\* get_markets_batch(market_ids) is called, once, on a new client; an empty
\* list returns at once
InvokeBatch ==
    /\ mpc \in {"batch", "chunks"}
    /\ ~call.active
    /\ prev = None
    /\ \E ids \in IF mpc = "chunks" THEN LongIds ELSE BatchIds :
          call' = [active |-> TRUE, ids |-> ids, pos |-> 1,
                   bpc |-> IF ids = <<>> THEN "done" ELSE "chunk",
                   results |-> <<>>, all_markets |-> <<>>, sleeps |-> 0,
                   metrics_before |-> metrics]
    /\ UNCHANGED <<config, clientVars, serverVars, callerVars>>

\* chunk.iter().map(|id| self.get_market_by_id(id)), join_all: the futures of
\* the chunk are started together
StartChunk ==
    /\ mpc \in {"batch", "chunks"}
    /\ call.active
    /\ call.bpc = "chunk"
    /\ task' = [t \in Tasks |->
                  IF t \in 1..ChunkLen(call.ids, call.pos)
                  THEN QueryFrame(MarketQuery(call.ids[call.pos + t - 1]))
                  ELSE task[t]]
    /\ call' = [call EXCEPT !.bpc = "join"]
    /\ UNCHANGED <<config, now, market_cache, single_market_cache,
                   read_guards, metrics, serverVars, callerVars>>

\* join_all returned: every future of the chunk has its result; the loop
\* over the results, then the 100 ms sleep if the chunk was full
JoinChunk ==
    /\ mpc \in {"batch", "chunks"}
    /\ call.active
    /\ call.bpc = "join"
    /\ LET n == ChunkLen(call.ids, call.pos)
           results == [t \in 1..n |-> Unwrap(task[t].ret)]
       IN /\ \A t \in 1..n : task[t].pc = "ret"
          /\ call' = [call EXCEPT
                        !.results = @ \o results,
                        !.all_markets = @ \o Successes(results),
                        !.sleeps = IF n = BATCH_SIZE THEN @ + 1 ELSE @,
                        !.pos = @ + n,
                        !.bpc = IF call.pos + n <= Len(call.ids)
                                THEN "chunk" ELSE "done"]
          /\ task' = [t \in Tasks |-> IF t \in 1..n THEN IdleFrame ELSE task[t]]
    /\ UNCHANGED <<config, now, market_cache, single_market_cache,
                   read_guards, metrics, serverVars, callerVars>>

\* Ok(all_markets)
ReturnBatch ==
    /\ mpc \in {"batch", "chunks"}
    /\ call.active
    /\ call.bpc = "done"
    /\ prev' = Some([ids |-> call.ids, results |-> call.results,
                     sleeps |-> call.sleeps, result |-> Ok(call.all_markets),
                     fetches |-> metrics.api_requests_total
                                    - call.metrics_before.api_requests_total])
    /\ ncalls' = ncalls + 1
    /\ call' = NoCall
    /\ UNCHANGED <<config, clientVars, serverVars>>

(***************************************************************************)
(* search_markets and get_market_prices applied to what the fetch returned.*)
(***************************************************************************)
SeqsUpTo(S, n) == UNION {[1..k -> S] : k \in 0..n}

\* keywords, pages of markets and markets the caller and upstream come up
\* with; the decoder takes outcomes and outcomePrices as two independent
\* arrays of strings
Keywords == SeqsUpTo({"e", "E", "l", "L", "P"}, MaxLen)
Pages == SeqsUpTo({MarketA("m1"), MarketB("m2")}, MaxLen)
PricedMarkets ==
    {[MarketA("m1") EXCEPT !.outcomes = o, !.outcome_prices = p] :
        o \in SeqsUpTo({"Yes"}, MaxLen), p \in SeqsUpTo({"0.6", "n/a"}, MaxLen)}

\* the operation's own part, after its fetch returned Ok(input)
Applied(cop, input) ==
    [cop |-> cop, input |-> input, result |-> Finish(cop, Ok(input))]

\* search_markets(keyword, None) on a page of markets
ApplySearch ==
    /\ mpc = "pure"
    /\ prev = None
    /\ \E keyword \in Keywords, page \in Pages :
          prev' = Some(Applied(OpSearchMarkets(keyword, None), page))
    /\ ncalls' = ncalls + 1
    /\ UNCHANGED <<config, clientVars, serverVars, call>>

\* get_market_prices(market_id) on a market
ApplyPrices ==
    /\ mpc = "pure"
    /\ prev = None
    /\ \E market \in PricedMarkets :
          prev' = Some(Applied(OpGetMarketPrices(market.id), market))
    /\ ncalls' = ncalls + 1
    /\ UNCHANGED <<config, clientVars, serverVars, call>>

(***************************************************************************)
(* The lines on stdin.                                                     *)
(***************************************************************************)
Ids == {Absent, "7"}

Params(name, uri, market_id, keyword, limit) ==
    [name |-> name, uri |-> uri, market_id |-> market_id,
     keyword |-> keyword, limit |-> limit]

\* params of tools/call requests: name, then the tool's arguments
ToolCallParams ==
    {Params(n, Absent, Absent, Absent, Absent) :
        n \in {Absent, NonString, "unknown_tool", "get_trending_markets"}}
    \cup {Params("get_active_markets", Absent, Absent, Absent, l) :
            l \in LimitValues}
    \cup {Params(n, Absent, m, Absent, Absent) :
            n \in {"get_market_details", "get_market_prices"},
            m \in {Absent, NonString, "m1"}}
    \cup {Params("search_markets", Absent, Absent, k, Absent) :
            k \in {Absent, "el"}}

ResourceReadParams ==
    {Params(Absent, u, Absent, Absent, Absent) :
        u \in {Absent, "markets:active", "markets:trending", "market:m1",
               "bogus:uri"}}

PromptGetParams ==
    {Params(n, Absent, Absent, Absent, Absent) :
        n \in {Absent, "market_summary", "unknown_prompt"}}
    \cup {Params("analyze_market", Absent, m, Absent, Absent) :
            m \in {Absent, "m1"}}
    \cup {Params("find_arbitrage", Absent, Absent, k, Absent) :
            k \in {Absent, "el"}}

MethodsAndParams ==
    {<<m, NoParams>> :
        m \in {Absent, NonString, "initialize", "tools/list", "resources/list",
               "prompts/list", "bogus/method"}}
    \cup {<<"notifications/initialized", p>> :
            p \in {NoParams,
                   Params("get_active_markets", Absent, Absent, Absent, Absent)}}
    \cup {<<"tools/call", p>> : p \in ToolCallParams}
    \cup {<<"resources/read", p>> : p \in ResourceReadParams}
    \cup {<<"prompts/get", p>> : p \in PromptGetParams}

\* a line either fails to decode as a serde_json::Value or decodes to a value
\* with these three members
Lines ==
    {[decodes |-> FALSE, value |-> NoRequest]}
    \cup {[decodes |-> TRUE,
           value |-> [method |-> mp[1], id |-> i, params |-> mp[2]]] :
            mp \in MethodsAndParams, i \in Ids}

(***************************************************************************)
(* PolymarketMcpServer's operations and handle_mcp_request's routing.      *)
(***************************************************************************)
\* a server operation that reaches the client: the client operations it
\* awaits one after the other, each followed by `?`
ServerOp(kind, name, arg, plan) ==
    [kind |-> kind, name |-> name, arg |-> arg, plan |-> plan]

\* what handle_mcp_request comes to before its first call into the client
Dropped == [t |-> "none"]
Reply(result) == [t |-> "reply", result |-> result]
Invoke(sop) == [t |-> "invoke", sop |-> sop]

\* anyhow::Error's Display
AnyhowDisplay(message, detail) == <<message, detail>>

TextContent(text) == <<[type |-> "text", text |-> text]>>
ToolSuccess(value) == [content |-> TextContent([pretty |-> value])]
\* a bug: the failure text without the isError flag
ToolErrorUnflagged(display) ==
    [content |-> TextContent([prefix |-> "Error: ", message |-> display])]
ToolError(display) ==
    [content |-> TextContent([prefix |-> "Error: ", message |-> display]),
     isError |-> TRUE]
\* a bug: an unknown tool reported like a failed tool
UnknownToolAsFailure(name) ==
    [content |-> TextContent([prefix |-> "Error: ", message |-> <<name>>]),
     isError |-> TRUE]
UnknownTool(name) ==
    [content |-> TextContent([prefix |-> "Unknown tool: ", message |-> <<name>>]),
     isError |-> TRUE]

ResourceContents(uri, text) ==
    [contents |-> <<[uri |-> uri, mimeType |-> "application/json",
                     text |-> text]>>]
\* a bug: the error string without the empty list
ResourceErrorOnly(display) ==
    [error |-> [prefix |-> "Error reading resource: ", message |-> display]]
ResourceError(display) ==
    [contents |-> <<>>,
     error |-> [prefix |-> "Error reading resource: ", message |-> display]]
PromptError(display) ==
    [messages |-> <<>>,
     error |-> [prefix |-> "Error getting prompt: ", message |-> display]]

InitializeResult ==
    [protocolVersion |-> "2024-11-05",
     capabilities |-> {"tools", "resources", "prompts"},
     serverInfo |-> [name |-> "polymarket-mcp", version |-> "1.0.0"]]

\* the tools/list catalog: each tool with its required arguments
ToolsList ==
    [tools |-> <<[name |-> "get_active_markets", required |-> {}],
                 [name |-> "get_market_details", required |-> {"market_id"}],
                 [name |-> "search_markets", required |-> {"keyword"}],
                 [name |-> "get_market_prices", required |-> {"market_id"}],
                 [name |-> "get_trending_markets", required |-> {}]>>]

list_resources == [resources |-> <<"markets:active", "markets:trending">>]

list_prompts ==
    [prompts |-> <<[name |-> "analyze_market", required |-> {"market_id"}],
                   [name |-> "find_arbitrage", required |-> {"keyword"}],
                   [name |-> "market_summary", required |-> {}]>>]

\* the default arm: the error object is the value of `result`
MethodNotFound ==
    [error |-> [code |-> -32601, message |-> "Method not found"]]

\* a bug: unwrap_or_default() in place of unwrap_or(d)
UnwrapOrDefault(o, d) == IF IsSome(o) THEN Unwrap(o) ELSE 0
\* unwrap_or(d) on an Option<u32>
UnwrapOr(o, d) == IF IsSome(o) THEN Unwrap(o) ELSE d

\* the "tools/call" arm up to the call of the server operation
RouteToolCall(p) ==
    LET name == as_str(p.name)
        market_id == as_str(p.market_id)
        keyword == as_str(p.keyword)
        limit == LimitArg(p.limit)
    IN  IF ~IsSome(name) THEN Dropped
        ELSE CASE Unwrap(name) = "get_active_markets" ->
                    Invoke(ServerOp("tool", "get_active_markets", "",
                                    <<OpGetActiveMarkets(limit)>>))
               [] Unwrap(name) = "get_market_details" ->
                    IF ~IsSome(market_id) THEN Dropped
                    ELSE Invoke(ServerOp("tool", "get_market_details",
                                         Unwrap(market_id),
                                         <<OpGetMarketById(Unwrap(market_id))>>))
               [] Unwrap(name) = "search_markets" ->
                    IF ~IsSome(keyword) THEN Dropped
                    ELSE Invoke(ServerOp("tool", "search_markets",
                                         Unwrap(keyword),
                                         <<OpSearchMarkets(Chars(Unwrap(keyword)),
                                                           limit)>>))
               [] Unwrap(name) = "get_market_prices" ->
                    IF ~IsSome(market_id) THEN Dropped
                    ELSE Invoke(ServerOp("tool", "get_market_prices",
                                         Unwrap(market_id),
                                         <<OpGetMarketPrices(Unwrap(market_id))>>))
               [] Unwrap(name) = "get_trending_markets" ->
                    Invoke(ServerOp("tool", "get_trending_markets", "",
                                    <<OpGetTrendingMarkets(limit)>>))
               [] OTHER -> Reply(UnknownTool(Unwrap(name)))

\* a bug: expires_at is the instant of the insert
NewResourceCacheNoTtl(data, ttl_seconds) ==
    [data |-> data, timestamp |-> now, expires_at |-> now]
\* ResourceCache::new and ResourceCache::is_expired
NewResourceCache(data, ttl_seconds) ==
    [data |-> data, timestamp |-> now, expires_at |-> now + ttl_seconds]
\* a bug: the entry counts as expired at the instant expires_at
resource_is_expired_at_ttl(cached) == now >= cached.expires_at
resource_is_expired(cached) == now > cached.expires_at

\* read_resource up to its first call into the client
RouteReadResource(uri) ==
    IF uri \in DOMAIN resource_cache /\ ~resource_is_expired(resource_cache[uri])
    THEN Reply(ResourceContents(uri, resource_cache[uri].data))
    ELSE CASE uri = "markets:active" ->
                Invoke(ServerOp("resource", uri, "",
                                <<OpGetActiveMarkets(Some(20))>>))
           [] uri = "markets:trending" ->
                Invoke(ServerOp("resource", uri, "",
                                <<OpGetTrendingMarkets(Some(10))>>))
           [] StartsWithMarket(uri) ->
                Invoke(ServerOp("resource", uri, "",
                                <<OpGetMarketById(StripMarketPrefix(uri))>>))
           [] OTHER ->
                Reply(ResourceError(AnyhowDisplay("Unknown resource URI: ", uri)))

\* get_prompt up to its first call into the client
RouteGetPrompt(name, p) ==
    LET market_id == as_str(p.market_id)
        keyword == as_str(p.keyword)
        limit == LimitArg(p.limit)
    IN  CASE name = "analyze_market" ->
                IF ~IsSome(market_id)
                THEN Reply(PromptError(
                         AnyhowDisplay("market_id argument is required", "")))
                ELSE Invoke(ServerOp("prompt", name, Unwrap(market_id),
                                     <<OpGetMarketById(Unwrap(market_id)),
                                       OpGetMarketPrices(Unwrap(market_id))>>))
          [] name = "find_arbitrage" ->
                IF ~IsSome(keyword)
                THEN Reply(PromptError(
                         AnyhowDisplay("keyword argument is required", "")))
                ELSE Invoke(ServerOp("prompt", name, Unwrap(keyword),
                                     <<OpSearchMarkets(Chars(Unwrap(keyword)),
                                                       Some(UnwrapOr(limit, 10)))>>))
          [] name = "market_summary" ->
                Invoke(ServerOp("prompt", name, "",
                                <<OpGetTrendingMarkets(Some(UnwrapOr(limit, 5))),
                                  OpGetActiveMarkets(Some(UnwrapOr(limit, 5)))>>))
          [] OTHER -> Reply(PromptError(AnyhowDisplay("Unknown prompt: ", name)))

\* a bug: no test for the notification prefix, so that a notification falls
\* through to the match on the method
RouteNotifications(req) ==
    LET method == as_str(req.method)
        m == Unwrap(method)
    IN  IF ~IsSome(method) THEN Dropped
        ELSE CASE m = "initialize" -> Reply(InitializeResult)
               [] m = "tools/list" -> Reply(ToolsList)
               [] m = "tools/call" -> RouteToolCall(req.params)
               [] m = "resources/list" -> Reply(list_resources)
               [] m = "resources/read" ->
                    IF ~IsSome(as_str(req.params.uri)) THEN Dropped
                    ELSE RouteReadResource(Unwrap(as_str(req.params.uri)))
               [] m = "prompts/list" -> Reply(list_prompts)
               [] m = "prompts/get" ->
                    IF ~IsSome(as_str(req.params.name)) THEN Dropped
                    ELSE RouteGetPrompt(Unwrap(as_str(req.params.name)),
                                        req.params)
               [] OTHER -> Reply(MethodNotFound)

\* handle_mcp_request up to its first call into the client
Route(req) ==
    LET method == as_str(req.method)
        m == Unwrap(method)
    IN  IF ~IsSome(method) THEN Dropped
        ELSE IF IsNotification(m) THEN Dropped
        ELSE CASE m = "initialize" -> Reply(InitializeResult)
               [] m = "tools/list" -> Reply(ToolsList)
               [] m = "tools/call" -> RouteToolCall(req.params)
               [] m = "resources/list" -> Reply(list_resources)
               [] m = "resources/read" ->
                    IF ~IsSome(as_str(req.params.uri)) THEN Dropped
                    ELSE RouteReadResource(Unwrap(as_str(req.params.uri)))
               [] m = "prompts/list" -> Reply(list_prompts)
               [] m = "prompts/get" ->
                    IF ~IsSome(as_str(req.params.name)) THEN Dropped
                    ELSE RouteGetPrompt(Unwrap(as_str(req.params.name)),
                                        req.params)
               [] OTHER -> Reply(MethodNotFound)

\* a bug: the id is not carried over
EnvelopeNullId(id, result) ==
    [jsonrpc |-> "2.0", id |-> "null", result |-> result]

\* Some(json!({"jsonrpc": "2.0", "id": id, "result": result}))
Envelope(id, result) ==
    [jsonrpc |-> "2.0", id |-> EchoId(id), result |-> result]

(***************************************************************************)
(* main's read loop and handle_mcp_request.                                *)
(***************************************************************************)
\* a bug: the next line is read while the response to the line in hand is
\* still to be written
ReadLineEarly ==
    /\ mpc \in {"read", "write"}
    /\ line_no < MaxLines
    /\ \E line \in Lines :
          /\ line_no' = line_no + 1
          /\ IF line.decodes
             THEN /\ request' = line.value
                  /\ mpc' = "handle"
                  /\ UNCHANGED undecoded
             ELSE /\ request' = NoRequest
                  /\ mpc' = "read"
                  /\ undecoded' = undecoded + 1
    /\ UNCHANGED <<config, clientVars, resource_cache, server_metrics,
                   response, output, call, callerVars>>

\* reader.read_line returned Ok(n > 0): the line is decoded; a line that does
\* not decode is dropped and the loop reads on
ReadFrom(lines) ==
    /\ mpc = "read"
    /\ line_no < MaxLines
    /\ \E line \in lines :
          /\ line_no' = line_no + 1
          /\ IF line.decodes
             THEN /\ request' = line.value
                  /\ mpc' = "handle"
                  /\ UNCHANGED undecoded
             ELSE /\ request' = NoRequest
                  /\ mpc' = "read"
                  /\ undecoded' = undecoded + 1
    /\ UNCHANGED <<config, clientVars, resource_cache, server_metrics,
                   response, output, call, callerVars>>
ReadLine == ReadFrom(Lines)

\* a peer that only reads resources
ResourceLines ==
    {line \in Lines : line.decodes /\ line.value.method = "resources/read"}
ReadResourceLine == ReadFrom(ResourceLines)

\* a bug: the end of the stream is noticed while the response to the line
\* in hand is still to be written
ReadEndEarly ==
    /\ mpc \in {"read", "write"}
    /\ mpc' = "done"
    /\ UNCHANGED <<config, clientVars, resource_cache, server_metrics,
                   line_no, undecoded, request, response, output, call,
                   callerVars>>

\* reader.read_line returned Ok(0) or Err(e): break
ReadEnd ==
    /\ mpc = "read"
    /\ mpc' = "done"
    /\ UNCHANGED <<config, clientVars, resource_cache, server_metrics,
                   line_no, undecoded, request, response, output, call,
                   callerVars>>

\* handle_mcp_request returned None: nothing is written and the loop body ends
HandleDropped ==
    /\ mpc = "handle"
    /\ Route(request).t = "none"
    /\ mpc' = "next"
    /\ UNCHANGED <<config, clientVars, resource_cache, server_metrics,
                   line_no, undecoded, request, response, output, call,
                   callerVars>>

\* handle_mcp_request returned Some(envelope) without calling the client
HandleReply ==
    /\ mpc = "handle"
    /\ Route(request).t = "reply"
    /\ response' = Some(Envelope(request.id, Route(request).result))
    /\ mpc' = "write"
    /\ UNCHANGED <<config, clientVars, resource_cache, server_metrics,
                   line_no, undecoded, request, output, call, callerVars>>

\* PolymarketMcpServer::get_metrics reports the counters of the server's own
\* block
get_metrics ==
    [api_requests_total |-> server_metrics.api_requests_total,
     api_requests_failed |-> server_metrics.api_requests_failed,
     cache_hits |-> server_metrics.cache_hits,
     cache_misses |-> server_metrics.cache_misses]

\* PolymarketMcpServer::get_active_markets counts the request in the server's
\* own metrics before it calls the client
CountsRequests(sop) == sop.kind = "tool" /\ sop.name = "get_active_markets"

\* handle_mcp_request calls a server operation, which calls the client
HandleInvoke ==
    /\ mpc = "handle"
    /\ Route(request).t = "invoke"
    /\ LET sop == Route(request).sop
       IN /\ call' = [active |-> TRUE, sop |-> sop, cop |-> Head(sop.plan),
                      plan |-> Tail(sop.plan), results |-> <<>>,
                      start |-> now]
          /\ server_metrics' = IF CountsRequests(sop)
                               THEN increment_api_requests(server_metrics)
                               ELSE server_metrics
          /\ StartQuery(MainTask, Head(sop.plan).query)
    /\ mpc' = "call"
    /\ UNCHANGED <<config, now, market_cache,
                   single_market_cache, read_guards, metrics, resource_cache,
                   line_no, undecoded, request, response, output, callerVars>>

\* the client operation returned Ok and the server operation calls the next one
ServerOpNext ==
    /\ mpc = "call"
    /\ task[MainTask].pc = "ret"
    /\ Finish(call.cop, Unwrap(task[MainTask].ret)).ok
    /\ call.plan # <<>>
    /\ call' = [call EXCEPT
                  !.cop = Head(call.plan),
                  !.plan = Tail(call.plan),
                  !.results = Append(@, Finish(call.cop,
                                               Unwrap(task[MainTask].ret)).data)]
    /\ StartQuery(MainTask, Head(call.plan).query)
    /\ UNCHANGED <<config, now, market_cache,
                   single_market_cache, read_guards, metrics, serverVars,
                   callerVars>>

\* the text a server operation renders from what the client returned
Render(sop, results) ==
    CASE sop.kind = "tool" /\ sop.name = "get_active_markets" ->
            [markets |-> results[1], count |-> Len(results[1]),
             request_id |-> "uuid"]
      [] sop.kind = "tool" /\ sop.name = "get_market_details" -> results[1]
      [] sop.kind = "tool" /\ sop.name = "search_markets" ->
            [markets |-> results[1], count |-> Len(results[1]),
             keyword |-> sop.arg]
      [] sop.kind = "tool" /\ sop.name = "get_market_prices" ->
            [market_id |-> sop.arg, prices |-> results[1]]
      [] sop.kind = "tool" /\ sop.name = "get_trending_markets" ->
            [markets |-> results[1], count |-> Len(results[1])]
      [] sop.kind = "resource" /\ StartsWithMarket(sop.name) -> results[1]
      [] sop.kind = "resource" ->
            [markets |-> results[1], count |-> Len(results[1]),
             last_updated |-> now]
      [] OTHER -> [prompt |-> sop.name, arg |-> sop.arg, data |-> results]

\* the `result` member for a server operation that returned Ok
OkResult(sop, results) ==
    CASE sop.kind = "tool" -> ToolSuccess(Render(sop, results))
      [] sop.kind = "resource" ->
            ResourceContents(sop.name, Render(sop, results))
      [] OTHER ->
            [messages |-> <<[role |-> "user",
                             content |-> Render(sop, results)]>>]

\* the `result` member for a server operation that returned Err
ErrResult(sop, error) ==
    CASE sop.kind = "tool" -> ToolError(ErrorDisplay(error))
      [] sop.kind = "resource" -> ResourceError(ErrorDisplay(error))
      [] OTHER -> PromptError(ErrorDisplay(error))

\* the last client operation returned Ok: the server operation returns Ok
\* (read_resource first stores the rendered text in the resource cache)
ServerOpDone ==
    /\ mpc = "call"
    /\ task[MainTask].pc = "ret"
    /\ Finish(call.cop, Unwrap(task[MainTask].ret)).ok
    /\ call.plan = <<>>
    /\ LET results == Append(call.results,
                             Finish(call.cop, Unwrap(task[MainTask].ret)).data)
           sop == call.sop
       IN /\ response' = Some(Envelope(request.id, OkResult(sop, results)))
          /\ resource_cache' =
                IF sop.kind = "resource"
                THEN Insert(resource_cache, sop.name,
                            NewResourceCache(Render(sop, results),
                                             config.resource_cache_ttl))
                ELSE resource_cache
          /\ server_metrics' =
                IF CountsRequests(sop)
                THEN update_avg_response_time(server_metrics, now - call.start)
                ELSE server_metrics
    /\ call' = NoCall
    /\ task' = [task EXCEPT ![MainTask] = IdleFrame]
    /\ mpc' = "write"
    /\ UNCHANGED <<config, now, market_cache,
                   single_market_cache, read_guards, metrics, line_no,
                   undecoded, request, output, callerVars>>

\* a bug: read_resource stores the error text of a failed read
ServerOpFailedStored ==
    /\ mpc = "call"
    /\ task[MainTask].pc = "ret"
    /\ ~Unwrap(task[MainTask].ret).ok
    /\ response' = Some(Envelope(request.id,
                           ErrResult(call.sop, Unwrap(task[MainTask].ret).error)))
    /\ resource_cache' =
          IF call.sop.kind = "resource"
          THEN Insert(resource_cache, call.sop.name,
                      NewResourceCache(ErrorDisplay(Unwrap(task[MainTask].ret).error),
                                       config.resource_cache_ttl))
          ELSE resource_cache
    /\ server_metrics' = IF CountsRequests(call.sop)
                         THEN increment_api_failures(server_metrics)
                         ELSE server_metrics
    /\ call' = NoCall
    /\ task' = [task EXCEPT ![MainTask] = IdleFrame]
    /\ mpc' = "write"
    /\ UNCHANGED <<config, now, market_cache,
                   single_market_cache, read_guards, metrics,
                   line_no, undecoded, request, output, callerVars>>

\* a client operation returned Err: `?` makes the server operation return it,
\* and handle_mcp_request wraps it into the `result` member
ServerOpFailed ==
    /\ mpc = "call"
    /\ task[MainTask].pc = "ret"
    /\ ~Unwrap(task[MainTask].ret).ok
    /\ response' = Some(Envelope(request.id,
                           ErrResult(call.sop, Unwrap(task[MainTask].ret).error)))
    /\ server_metrics' = IF CountsRequests(call.sop)
                         THEN increment_api_failures(server_metrics)
                         ELSE server_metrics
    /\ call' = NoCall
    /\ task' = [task EXCEPT ![MainTask] = IdleFrame]
    /\ mpc' = "write"
    /\ UNCHANGED <<config, now, market_cache,
                   single_market_cache, read_guards, metrics, resource_cache,
                   line_no, undecoded, request, output, callerVars>>

\* what the log of stdout keeps of a response line: the input line it answers
\* and the envelope's jsonrpc member (the whole envelope is `response` at the
\* moment it is written)
OutputLine(envelope) ==
    [line |-> line_no, jsonrpc |-> envelope.jsonrpc]

\* write_all(response_json), write_all("\n"), flush; the loop body ends
WriteResponse ==
    /\ mpc = "write"
    /\ output' = Append(output, OutputLine(Unwrap(response)))
    /\ response' = None
    /\ mpc' = "next"
    /\ UNCHANGED <<config, clientVars, resource_cache, server_metrics,
                   line_no, undecoded, request, call, callerVars>>

\* the loop's next iteration: `request` is dropped, line.clear()
NextLine ==
    /\ mpc = "next"
    /\ request' = NoRequest
    /\ mpc' = "read"
    /\ UNCHANGED <<config, clientVars, resource_cache, server_metrics,
                   line_no, undecoded, response, output, call, callerVars>>

(***************************************************************************)
(* Configurations and initial states.                                      *)
(***************************************************************************)
Configs ==
    [cache_enabled : BOOLEAN, max_retries : 0..MaxRetries, retry_delay : {100},
     cache_ttl : 0..MaxTtl, resource_cache_ttl : 0..MaxTtl]

\* the state with the main task at `position`, for a client whose
\* single-market cache and metrics are the given ones
InitWith(position, configs, cache, m) ==
    /\ config \in configs
    /\ now = 0
    /\ market_cache = EmptyMap
    /\ single_market_cache = cache
    /\ read_guards = [c \in {"market_cache", "single_market_cache"} |-> {}]
    /\ metrics = m
    /\ task = [t \in Tasks |-> IdleFrame]
    /\ resource_cache = EmptyMap
    /\ server_metrics = NewMetrics
    /\ mpc = position
    /\ line_no = 0
    /\ undecoded = 0
    /\ request = NoRequest
    /\ call = NoCall
    /\ response = None
    /\ output = <<>>
    /\ ncalls = 0
    /\ prev = None

\* the state after construction
InitState(position, configs) == InitWith(position, configs, EmptyMap, NewMetrics)

\* the client and the server are run with two attempts and the largest TTLs
ClientConfigs ==
    {c \in Configs : /\ c.max_retries = 2
                     /\ c.cache_ttl = MaxTtl
                     /\ c.resource_cache_ttl = MaxTtl}

InitClient == InitState("caller", ClientConfigs)
NextClient ==
    \/ InvokeClient
    \/ ReturnClient
    \/ \E t \in Tasks : ClientStep(t)
    \/ Tick
SpecClient == InitClient /\ [][NextClient]_vars

\* the library caller making collection queries only
InitSearch == InitState("searcher", ClientConfigs)
SpecSearch == InitSearch /\ [][NextClient]_vars

Init == InitState("read", ClientConfigs)
Next ==
    \/ ReadLine
    \/ ReadEnd
    \/ HandleDropped
    \/ HandleReply
    \/ HandleInvoke
    \/ ServerOpNext
    \/ ServerOpDone
    \/ ServerOpFailed
    \/ WriteResponse
    \/ NextLine
    \/ \E t \in Tasks : ClientStep(t)
Spec == Init /\ [][Next]_vars
\* stdin is finite and read_line returns; every HTTP exchange, sleep and
\* write to stdout ends
SpecLive == Spec /\ WF_vars(Next)

InitFetch == InitState("fetcher", {c \in Configs : ~c.cache_enabled /\ c.cache_ttl = 0 /\ c.resource_cache_ttl = 0})
NextFetch ==
    \/ InvokeClient
    \/ ReturnClient
    \/ \E t \in Tasks :
          \/ BeginRequest(t)
          \/ SendRequest(t)
          \/ ReceiveResponse(t)
          \/ RecordSuccess(t)
          \/ Sleep(t)
          \/ Exhausted(t)
    \/ Tick
SpecFetch == InitFetch /\ [][NextFetch]_vars

\* the fetcher alone, when every HTTP exchange ends (the client's per-request
\* timeout), every sleep ends and the runtime polls the future again
FetchStep ==
    \E t \in Tasks :
        \/ BeginRequest(t)
        \/ SendRequest(t)
        \/ ReceiveResponse(t)
        \/ RecordSuccess(t)
        \/ Sleep(t)
        \/ Exhausted(t)
SpecFetchLive == SpecFetch /\ WF_vars(FetchStep)

\* the dispatcher serving resources/read lines while the clock advances
InitResource ==
    InitState("read", {c \in Configs : c.max_retries = 2 /\ c.cache_ttl = MaxTtl})
NextResource ==
    \/ ReadResourceLine
    \/ ReadEnd
    \/ HandleDropped
    \/ HandleReply
    \/ HandleInvoke
    \/ ServerOpDone
    \/ ServerOpFailed
    \/ WriteResponse
    \/ NextLine
    \/ \E t \in Tasks : ClientStep(t)
    \/ Tick
SpecResource == InitResource /\ [][NextResource]_vars

\* the filters of search_markets and get_market_prices on their own
InitPure == InitState("pure", ClientConfigs)
NextPure ==
    \/ ApplySearch
    \/ ApplyPrices
SpecPure == InitPure /\ [][NextPure]_vars

\* a client with caching enabled on which get_market_by_id("m1") has just
\* returned MarketA: one miss, one fetch call, one response time of 0 ms, and
\* the entry put
WarmCache == Insert(EmptyMap, "m1", NewCacheEntry(MarketA("m1")))
WarmMetrics ==
    update_avg_response_time(
        increment_api_requests(increment_cache_misses(NewMetrics)), 0)

\* get_markets_batch, with an upstream that fails in one way, on a new
\* client or on the client that has fetched m1
InitBatch ==
    \/ InitState("batch", ClientConfigs)
    \/ InitWith("batch", {c \in ClientConfigs : c.cache_enabled},
                WarmCache, WarmMetrics)
NextBatch ==
    \/ InvokeBatch
    \/ StartChunk
    \/ JoinChunk
    \/ ReturnBatch
    \/ \E t \in Tasks : ClientStep(t)
SpecBatch == InitBatch /\ [][NextBatch]_vars
\* every HTTP exchange and every sleep ends, and the runtime polls a future
\* that can go on
SpecBatchLive == SpecBatch /\ WF_vars(NextBatch)

\* the library caller on the client that has fetched m1, with caching enabled
InitRefresh ==
    InitWith("caller", {c \in ClientConfigs : c.cache_enabled},
             WarmCache, WarmMetrics)
SpecRefresh == InitRefresh /\ [][NextClient]_vars

\* join_all polls the futures of a chunk one after the other, in their
\* order, on the caller's task: a future runs on from where it was until its
\* next await that is pending (the HTTP exchange), and only then another
\* does; a response is seen in a later poll, after the first poll has
\* started every future
Awaiting(t) == task[t].pc \in {"idle", "start", "http", "sleep", "ret"}
Polled(t) ==
    /\ \A u \in Tasks \ {t} : Awaiting(u)
    /\ task[t].pc = "start" => \A u \in 1..(t - 1) : task[u].pc # "start"
    /\ task[t].pc = "http" => \A u \in Tasks : task[u].pc # "start"

\* get_markets_batch of nine ids and more, on a client without a cache that
\* makes one attempt per fetch
InitChunks ==
    InitState("chunks", {c \in Configs : /\ ~c.cache_enabled
                                         /\ c.max_retries = 1
                                         /\ c.cache_ttl = 0
                                         /\ c.resource_cache_ttl = 0})
NextChunks ==
    \/ InvokeBatch
    \/ StartChunk
    \/ JoinChunk
    \/ ReturnBatch
    \/ \E t \in Tasks :
          /\ Polled(t)
          /\ \/ CacheLookup(t)
             \/ RecordCacheMiss(t)
             \/ BeginRequest(t)
             \/ SendRequest(t)
             \/ ReceiveResponse(t)
             \/ RecordSuccess(t)
             \/ Exhausted(t)
SpecChunks == InitChunks /\ [][NextChunks]_vars

(***************************************************************************)
(* Properties of the dispatcher (Spec).                                    *)
(***************************************************************************)
\* the request in hand names a method, and the method is a notification
NotificationRequest ==
    /\ IsSome(as_str(request.method))
    /\ IsNotification(Unwrap(as_str(request.method)))

\* the request in hand names a method that is not a notification
Answerable ==
    /\ IsSome(as_str(request.method))
    /\ ~IsNotification(Unwrap(as_str(request.method)))

\* the response lines written for the line in hand
Answers == {i \in DOMAIN output : output[i].line = line_no}

\* C1: every line that decodes to a message whose method is not a
\* notification has exactly one response line written for it when the loop
\* goes on to the next line, whatever its params
C1_OneResponsePerRequest ==
    (mpc = "next" /\ Answerable) => Cardinality(Answers) = 1

\* the request in hand is a tools/call naming a catalog tool, with the
\* arguments the catalog requires of that tool given as strings
KnownToolCall ==
    /\ as_str(request.method) = Some("tools/call")
    /\ \E i \in DOMAIN ToolsList.tools :
          /\ as_str(request.params.name) = Some(ToolsList.tools[i].name)
          /\ \A a \in ToolsList.tools[i].required :
                IsSome(as_str(request.params[a]))

\* a text-content result without an isError member
IsToolSuccess(result) ==
    /\ DOMAIN result = {"content"}
    /\ Len(result.content) = 1
    /\ result.content[1].type = "text"
    /\ DOMAIN result.content[1].text = {"pretty"}

\* a result whose text is "Error: {message}" and whose isError is true
IsToolFailure(result, error) ==
    /\ DOMAIN result = {"content", "isError"}
    /\ result.isError = TRUE
    /\ Len(result.content) = 1
    /\ result.content[1].type = "text"
    /\ result.content[1].text =
          [prefix |-> "Error: ", message |-> ErrorDisplay(error)]

\* C3: a tools/call naming one of the five tools with its required arguments
\* reaches the repository; when the repository operation returns, the
\* envelope has a result and no error member: text content without isError
\* if the operation succeeded, text "Error: {message}" with isError true if
\* it failed
C3_ToolCallOutcome ==
    [][/\ (mpc = "handle" /\ KnownToolCall) => mpc' = "call"
       /\ (mpc = "call" /\ mpc' = "write" /\ KnownToolCall) =>
            LET ret == Unwrap(task[MainTask].ret)
                envelope == Unwrap(response')
            IN /\ DOMAIN envelope = {"jsonrpc", "id", "result"}
               /\ IF ret.ok
                  THEN IsToolSuccess(envelope.result)
                  ELSE IsToolFailure(envelope.result, ret.error)]_vars

\* a tool call that failed upstream is about to be answered
C3_Witness ==
    /\ mpc = "write"
    /\ KnownToolCall
    /\ request.params.name = "get_market_details"
    /\ "isError" \in DOMAIN Unwrap(response).result
    /\ metrics.api_requests_failed = 1

\* the request in hand names a method that is neither recognized nor a
\* notification
UnknownMethod ==
    /\ Answerable
    /\ Unwrap(as_str(request.method)) \notin KnownMethods

\* C4: the response to a request with an unrecognized method carries the
\* error object {code: -32601, message} as its error member and has no
\* result member
C4_MethodNotFoundIsError ==
    (mpc = "write" /\ UnknownMethod) =>
        LET envelope == Unwrap(response)
        IN /\ "error" \in DOMAIN envelope
           /\ "result" \notin DOMAIN envelope
           /\ envelope.error.code = -32601

\* C5: handling a notification writes no response line and leaves the
\* client, both caches, both metrics blocks and the call stack untouched,
\* whatever its id and params
C5_NotificationsAreSilent ==
    [][(mpc = "handle" /\ NotificationRequest) =>
          /\ mpc' = "next"
          /\ response' = None
          /\ UNCHANGED <<output, clientVars, resource_cache, server_metrics,
                         call>>]_vars

\* a notification with an id and with tool-call params has been handled
C5_Witness ==
    /\ mpc = "next"
    /\ NotificationRequest
    /\ request.id # Absent
    /\ request.params.name = "get_active_markets"
    /\ Answers = {}

\* C6: the envelope written for a request carries that request's id, null
\* if the request had none, and jsonrpc "2.0"
C6_IdEchoed ==
    /\ mpc = "write" =>
          /\ Unwrap(response).id =
                (IF request.id = Absent THEN "null" ELSE request.id)
          /\ Unwrap(response).jsonrpc = "2.0"
    /\ \A i \in DOMAIN output : output[i].jsonrpc = "2.0"

\* the second line, a request without id, is about to be answered with null
C6_Witness ==
    /\ mpc = "write"
    /\ line_no > 1
    /\ Len(output) = 1
    /\ request.id = Absent
    /\ Unwrap(response).id = "null"

\* the request in hand is a tools/call whose name is a string outside the
\* catalog
UnknownToolCall ==
    /\ as_str(request.method) = Some("tools/call")
    /\ IsSome(as_str(request.params.name))
    /\ \A i \in DOMAIN ToolsList.tools :
          Unwrap(as_str(request.params.name)) # ToolsList.tools[i].name

\* C7: a tools/call with a name outside the catalog is answered with isError
\* true and the text "Unknown tool: {name}", and handling it starts no
\* repository operation and no upstream request
C7_UnknownTool ==
    [][(mpc = "handle" /\ UnknownToolCall) =>
          /\ mpc' = "write"
          /\ LET result == Unwrap(response').result
             IN /\ "isError" \in DOMAIN result
                /\ result.isError = TRUE
                /\ result.content[1].text =
                      [prefix |-> "Unknown tool: ",
                       message |-> <<request.params.name>>]
          /\ UNCHANGED <<clientVars, resource_cache, server_metrics,
                         call>>]_vars

\* the answer to an unknown tool is about to be written
C7_Witness ==
    /\ mpc = "write"
    /\ UnknownToolCall
    /\ request.params.name = "unknown_tool"
    /\ Unwrap(response).result.isError = TRUE
    /\ metrics = NewMetrics

\* C8: a line that does not decode gets no response line and the loop goes
\* on: every later line that decodes to a message whose method is not a
\* notification is handled and answered
C8_LoopSurvivesBadLine ==
    /\ Len(output) + undecoded <= line_no
    /\ (mpc = "next" /\ undecoded > 0 /\ Answerable) =>
          Cardinality(Answers) = 1

\* C9: lines are handled one at a time in input order: response lines are
\* in the order of their requests, a line is read only when nothing is in
\* flight, and the line in hand has no response line before it is written
C9_OneAtATime ==
    /\ \A i, j \in DOMAIN output : i < j => output[i].line < output[j].line
    /\ \A i \in DOMAIN output : output[i].line <= line_no
    /\ mpc \in {"handle", "call", "write"} => Answers = {}
    /\ mpc \in {"read", "done"} =>
          /\ response = None
          /\ ~call.active
          /\ \A t \in Tasks : task[t].pc = "idle"

\* two requests have been answered, each before the next was read
C9_Witness ==
    /\ mpc = "next"
    /\ Len(output) = 2
    /\ output[1].line = 1
    /\ output[2].line = 2


(***************************************************************************)
(* Properties of the library client (SpecClient) and of the fetcher alone  *)
(* (SpecFetch).                                                            *)
(***************************************************************************)
\* the caller's second of two consecutive identical queries has its result,
\* and it was started within cache_ttl of the end of the first
SecondOfTwo ==
    /\ mpc = "caller"
    /\ call.active
    /\ task[MainTask].pc = "ret"
    /\ IsSome(prev)
    /\ Unwrap(prev).cop = call.cop
    /\ call.start - Unwrap(prev).end <= config.cache_ttl

\* one fetch call for the two queries together and equal results if caching
\* is enabled, one fetch call for each if it is disabled
OneFetchForTwo ==
    IF config.cache_enabled
    THEN /\ Unwrap(prev).fetches + CompletedCall.fetches = 1
         /\ CompletedCall.result = Unwrap(prev).result
    ELSE /\ Unwrap(prev).fetches = 1
         /\ CompletedCall.fetches = 1

\* C2 as stated: two sequential identical queries within the TTL window make
\* one upstream fetch call and return the same data if caching is enabled,
\* and one fetch call each if it is disabled
C2_AsStated == SecondOfTwo => OneFetchForTwo

\* the first of the two queries found no fresh entry, went upstream and
\* succeeded
FirstFetched ==
    /\ Unwrap(prev).fetches = 1
    /\ Unwrap(prev).result.ok

\* C2: two sequential identical queries within the TTL window, the first of
\* which went upstream and succeeded, make one upstream fetch call and
\* return the same data if caching is enabled; with caching disabled each
\* makes its own fetch call
C2_OneFetchWithinTtl ==
    (SecondOfTwo /\ (config.cache_enabled => FirstFetched)) => OneFetchForTwo

\* the second query, made later than the first but within the TTL, was
\* served from the cache
C2_Witness ==
    /\ SecondOfTwo
    /\ config.cache_enabled
    /\ FirstFetched
    /\ call.start > Unwrap(prev).end
    /\ CompletedCall.fetches = 0
    /\ CompletedCall.result = Unwrap(prev).result

\* make_request_with_retry has returned Err to task t
Last(seq) == seq[Len(seq)]

FetchFailed(t) ==
    /\ task[t].pc = "ret"
    /\ IsSome(task[t].fetch_result)
    /\ ~Unwrap(task[t].fetch_result).ok

\* C10: with max_retries = N >= 1, a fetch call all of whose attempts failed
\* has made exactly N attempts and N-1 sleeps, one sleep after each attempt
\* but the last
C10_AttemptsAndSleeps ==
    \A t \in Tasks :
        (FetchFailed(t) /\ config.max_retries >= 1) =>
            LET events == task[t].events
            IN /\ Cardinality(Attempts(events)) = config.max_retries
               /\ Cardinality(Sleeps(events)) = config.max_retries - 1
               /\ \A i \in DOMAIN events :
                     events[i][1] = IF i % 2 = 1 THEN "attempt" ELSE "sleep"

\* three attempts failed, the last on a body that does not decode
C10_Witness ==
    /\ mpc = "fetcher"
    /\ config.max_retries = 3
    /\ FetchFailed(MainTask)
    /\ Unwrap(task[MainTask].fetch_result).error.kind = "DeserializationError"
    /\ Len(task[MainTask].events) = 5


\* C11: when every attempt of a fetch call fails, the error returned is the
\* one captured for the failure of the final attempt
C11_LastErrorReturned ==
    \A t \in Tasks :
        (FetchFailed(t) /\ config.max_retries >= 1) =>
            /\ Len(task[t].failures) = config.max_retries
            /\ Unwrap(task[t].fetch_result).error =
                  CASE Last(task[t].failures) = "status" ->
                          [kind |-> "ApiError", message |-> "HTTP error"]
                    [] Last(task[t].failures) = "send" ->
                          [kind |-> "NetworkError", message |-> "Request error"]
                    [] Last(task[t].failures) = "body" ->
                          [kind |-> "NetworkError",
                           message |-> "Response reading error"]
                    [] OTHER ->
                          [kind |-> "DeserializationError",
                           message |-> "JSON parsing error"]

\* three attempts failed in three ways, and the last was a non-2xx status
C11_Witness ==
    /\ mpc = "fetcher"
    /\ FetchFailed(MainTask)
    /\ task[MainTask].failures = <<"json", "send", "status">>
    /\ Unwrap(task[MainTask].fetch_result).error.kind = "ApiError"

(***************************************************************************)
(* Properties of get_markets_batch (SpecBatch).                            *)
(***************************************************************************)
\* the positions of the ids whose get_market_by_id returned Ok
FetchedOk(b) == {i \in DOMAIN b.ids : b.results[i].ok}

\* C12: get_markets_batch returns Ok whatever ids failed, and the markets it
\* returns are those of the ids that were fetched, in the order of the ids,
\* the failing ids left out
C12_BatchDropsFailures ==
    (mpc = "batch" /\ IsSome(prev)) =>
        LET b == Unwrap(prev)
            rank(i) == Cardinality({j \in FetchedOk(b) : j <= i})
        IN /\ b.result.ok
           /\ Len(b.results) = Len(b.ids)
           /\ Len(b.result.data) = Cardinality(FetchedOk(b))
           /\ \A i \in FetchedOk(b) :
                 /\ b.result.data[rank(i)] = b.results[i].data
                 /\ b.result.data[rank(i)].id = b.ids[i]
C12_Witness ==
    /\ mpc = "batch"
    /\ IsSome(prev)
    /\ Unwrap(prev).ids = <<"m1", "m2">>
    /\ FetchedOk(Unwrap(prev)) = {2}
    /\ Unwrap(prev).result = Ok(<<MarketA("m2")>>)

(***************************************************************************)
(* Properties of the resource cache (SpecResource).                        *)
(***************************************************************************)
\* handle_mcp_request is about to serve a resources/read request for a URI
ReadsResource ==
    /\ mpc = "handle"
    /\ request.method = "resources/read"
    /\ IsSome(as_str(request.params.uri))
\* the URI has an entry in the resource cache that is within its TTL
WithinResourceTtl(uri) ==
    /\ uri \in DOMAIN resource_cache
    /\ now <= resource_cache[uri].expires_at

\* a read of a URI whose entry is within its TTL returns the stored text and
\* touches neither the client nor the resource cache
ReadWithinTtl ==
    (ReadsResource /\ WithinResourceTtl(request.params.uri)) =>
        /\ response' =
              Some(Envelope(request.id,
                     ResourceContents(request.params.uri,
                        resource_cache[request.params.uri].data)))
        /\ mpc' = "write"
        /\ ~call'.active
        /\ UNCHANGED <<clientVars, resource_cache>>
\* a read of a known URI that has no entry calls the client
ReadMisses ==
    (ReadsResource /\ request.params.uri \notin DOMAIN resource_cache
        /\ Route(request).t = "invoke") =>
        /\ call'.active
        /\ task'[MainTask].pc = "start"
\* a read that renders stores the text it returns, with the resource TTL
ReadStores ==
    (mpc = "call" /\ call.sop.kind = "resource" /\ mpc' = "write"
        /\ Unwrap(response').result.contents # <<>>) =>
        /\ call.sop.name \in DOMAIN resource_cache'
        /\ resource_cache'[call.sop.name].data =
              Unwrap(response').result.contents[1].text
        /\ resource_cache'[call.sop.name].expires_at =
              now + config.resource_cache_ttl

\* C13: the first read_resource of a URI misses the resource cache, calls the
\* client and stores the text it rendered; a second read of the URI within
\* the resource TTL returns that text with no client call, no query-cache
\* access and no upstream call
C13_SecondReadFromCache == [][ReadWithinTtl /\ ReadMisses /\ ReadStores]_vars
\* the second read of market:m1 is answered from the resource cache, one
\* second after the first
C13_Witness ==
    /\ mpc = "write"
    /\ line_no = 2
    /\ now = 1
    /\ request.method = "resources/read"
    /\ request.params.uri = "market:m1"
    /\ WithinResourceTtl("market:m1")
    /\ resource_cache["market:m1"].expires_at = 1
    /\ metrics.api_requests_total = 1
    /\ response = Some(Envelope(request.id,
                      ResourceContents("market:m1",
                                       resource_cache["market:m1"].data)))

(***************************************************************************)
(* Properties of the filters (SpecPure).                                   *)
(***************************************************************************)
Searched == mpc = "pure" /\ IsSome(prev) /\ Unwrap(prev).cop.op = "search_markets"
Priced == mpc = "pure" /\ IsSome(prev) /\ Unwrap(prev).cop.op = "get_market_prices"

Range(seq) == {seq[i] : i \in DOMAIN seq}
\* the same letters, each in either case
CasePairs == {<<"e", "E">>, <<"l", "L">>, <<"p", "P">>, <<"x", "X">>}
DifferOnlyInCase(k1, k2) ==
    /\ Len(k1) = Len(k2)
    /\ \A i \in DOMAIN k1 :
          k1[i] = k2[i] \/ <<k1[i], k2[i]>> \in CasePairs
                       \/ <<k2[i], k1[i]>> \in CasePairs
\* the lowercased keyword is a substring of the lowercased text
InLowercased(text, keyword) ==
    \E i \in 1..(Len(text) + 1), j \in 0..Len(text) :
        SubSeq(to_lowercase(text), i, j) = to_lowercase(keyword)

\* C14: keywords that differ only in letter case give search_markets the
\* same result on the same page, and a market of the page is in the result
\* exactly when the lowercased keyword is a substring of its lowercased
\* question, description (if present) or category (if present)
C14_SearchIgnoresCase ==
    Searched =>
        LET s == Unwrap(prev)
        IN /\ s.result.ok
           /\ \A k \in Keywords :
                 DifferOnlyInCase(k, s.cop.keyword) =>
                    Finish(OpSearchMarkets(k, None), Ok(s.input)) = s.result
           /\ Range(s.result.data) \subseteq Range(s.input)
           /\ \A m \in Range(s.input) :
                 m \in Range(s.result.data) <=>
                    \/ InLowercased(m.question, s.cop.keyword)
                    \/ IsSome(m.description)
                         /\ InLowercased(Unwrap(m.description), s.cop.keyword)
                    \/ IsSome(m.category)
                         /\ InLowercased(Unwrap(m.category), s.cop.keyword)
\* "EL" finds the market whose question is "Elx" and the one whose
\* description is "eL"
C14_Witness ==
    /\ Searched
    /\ Unwrap(prev).cop.keyword = <<"E", "L">>
    /\ Unwrap(prev).input = <<MarketA("m1"), MarketB("m2")>>
    /\ Unwrap(prev).result = Ok(<<MarketA("m1"), MarketB("m2")>>)

\* the indices (from 1) of the price strings that parse
ParsedPrices(market) ==
    {i \in DOMAIN market.outcome_prices : ParsesAsF64(market.outcome_prices[i])}
Min(a, b) == IF a < b THEN a ELSE b

\* C15: get_market_prices returns min(len(outcomes), number of price strings
\* that parse) entries, one for each index whose outcome and price both
\* exist and whose price parses, named "outcome_{i}" after that index, and
\* no price string makes the call fail
C15_PricesCount ==
    Priced =>
        LET m == Unwrap(prev).input
            r == Unwrap(prev).result
        IN /\ r.ok
           /\ Len(r.data) = Min(Len(m.outcomes), Cardinality(ParsedPrices(m)))
           /\ \A i \in 1..(Len(m.outcomes) + Len(m.outcome_prices)) :
                 (i \in DOMAIN m.outcomes /\ i \in ParsedPrices(m)) <=>
                    \E e \in Range(r.data) : e.outcome_id = <<"outcome_", i - 1>>

(***************************************************************************)
(* Properties of get_active_markets (SpecClient).                          *)
(***************************************************************************)
\* the caller's get_active_markets is at this point of the client
ActiveCallAt(pc) ==
    /\ mpc = "caller"
    /\ call.active
    /\ call.cop.op = "get_active_markets"
    /\ task[MainTask].pc = pc
\* the query string of the GET request carries name=value
Carries(url, name, value) == <<name, Some(value)>> \in Range(url[2])

\* C16: every GET request of get_active_markets(limit) goes to /markets
\* with active=true, archived=false and the caller's limit, 50 when the
\* caller gave none; what the call returns is a page upstream served for
\* such a request, as it was served
C16_ActiveFilters ==
    /\ ActiveCallAt("http") =>
          /\ task[MainTask].query.url[1] = "/markets"
          /\ Carries(task[MainTask].query.url, "active", TRUE)
          /\ Carries(task[MainTask].query.url, "archived", FALSE)
          /\ Carries(task[MainTask].query.url, "limit",
                     IF call.cop = OpGetActiveMarkets(None) THEN 50 ELSE 5)
    /\ (ActiveCallAt("ret") /\ Unwrap(task[MainTask].ret).ok) =>
          Unwrap(task[MainTask].ret).data \in ListBodies
C16_Witness ==
    /\ ActiveCallAt("http")
    /\ call.cop = OpGetActiveMarkets(None)
    /\ Carries(task[MainTask].query.url, "limit", 50)
    /\ Carries(task[MainTask].query.url, "archived", FALSE)

(***************************************************************************)
(* Properties of the resource and prompt handlers (Spec).                  *)
(***************************************************************************)
\* the name of the list a method's result holds
ListMember(method) ==
    CASE method = "resources/list" -> "resources"
      [] method = "resources/read" -> "contents"
      [] method = "prompts/list" -> "prompts"
      [] OTHER -> "messages"
ListingMethods ==
    {"resources/list", "resources/read", "prompts/list", "prompts/get"}
\* the request in hand is a resource or prompt request whose operation is
\* called (resources/read and prompts/get need a string uri / name for that)
CallsListingOp ==
    /\ request.method \in ListingMethods
    /\ request.method = "resources/read" => IsSome(as_str(request.params.uri))
    /\ request.method = "prompts/get" => IsSome(as_str(request.params.name))
\* read_resource and get_prompt fail before any client call on an unknown
\* URI or prompt and on a missing required argument; list_resources and
\* list_prompts always return Ok
FailsAtOnce ==
    \/ /\ request.method = "resources/read"
       /\ ~WithinResourceTtl(request.params.uri)
       /\ request.params.uri \notin {"markets:active", "markets:trending"}
       /\ ~StartsWithMarket(request.params.uri)
    \/ /\ request.method = "prompts/get"
       /\ \/ request.params.name \notin
                {"analyze_market", "find_arbitrage", "market_summary"}
          \/ /\ request.params.name = "analyze_market"
             /\ ~IsSome(as_str(request.params.market_id))
          \/ /\ request.params.name = "find_arbitrage"
             /\ ~IsSome(as_str(request.params.keyword))
\* the operation fails at this step: at once, or when a client call of its
\* plan has returned Err
OperationFails ==
    /\ CallsListingOp
    /\ \/ mpc = "handle" /\ FailsAtOnce
       \/ /\ mpc = "call"
          /\ task[MainTask].pc = "ret"
          /\ ~Unwrap(task[MainTask].ret).ok
\* an envelope whose result holds an error string and the method's list, empty
ErrorWithEmptyList(envelope, method) ==
    /\ DOMAIN envelope.result = {"error", ListMember(method)}
    /\ envelope.result[ListMember(method)] = <<>>
    /\ envelope.result.error.message # <<>>
AnswersFailure ==
    /\ mpc = "write"
    /\ CallsListingOp
    /\ "error" \in DOMAIN Unwrap(response).result

FailureIsAnswered ==
    OperationFails =>
        /\ mpc' = "write"
        /\ IsSome(response')
        /\ ErrorWithEmptyList(Unwrap(response'), request.method)
        /\ Unwrap(response').id = EchoId(request.id)
FailureIsWritten ==
    AnswersFailure =>
        /\ output' = Append(output, OutputLine(Unwrap(response)))
        /\ mpc' = "next"
LoopGoesOn ==
    (mpc = "next" /\ CallsListingOp) => (mpc' = "read" /\ line_no' = line_no)

\* C17: when the operation behind a resources/list, resources/read,
\* prompts/list or prompts/get request fails, the response is an envelope
\* whose result holds an error string and an empty list; that line is
\* written, and the loop goes on to read the next line
C17_ListingFailureAnswered ==
    [][FailureIsAnswered /\ FailureIsWritten /\ LoopGoesOn]_vars
\* the line that answers a resources/read whose fetch failed has been written
C17_Witness ==
    /\ mpc = "next"
    /\ request.method = "resources/read"
    /\ request.params.uri = "market:m1"
    /\ metrics.api_requests_failed = 1
    /\ resource_cache = EmptyMap
    /\ Len(output) = 1
    /\ output[1].line = line_no

\* handle_mcp_request is about to serve a prompts/get request for a name
GetsPrompt(name) ==
    /\ mpc = "handle"
    /\ request.method = "prompts/get"
    /\ request.params.name = name
\* get_prompt fails without calling the client
PromptFailsAtOnce ==
    /\ IsSome(response')
    /\ Unwrap(response').id = EchoId(request.id)
    /\ ErrorWithEmptyList(Unwrap(response'), "prompts/get")
    /\ mpc' = "write"
    /\ ~call'.active
    /\ UNCHANGED <<clientVars, resource_cache, server_metrics>>
\* get_prompt calls the client, and every collection query of its plan asks
\* for `limit` markets
PromptAsksFor(limit) ==
    /\ call'.active
    /\ task'[MainTask].query = call'.cop.query
    /\ \A cop \in {call'.cop} \cup Range(call'.plan) :
          Carries(cop.query.url, "limit", limit)

MissingArgumentFails ==
    /\ (GetsPrompt("analyze_market") /\ request.params.market_id = Absent)
          => PromptFailsAtOnce
    /\ (GetsPrompt("find_arbitrage") /\ request.params.keyword = Absent)
          => PromptFailsAtOnce
    /\ GetsPrompt("unknown_prompt") => PromptFailsAtOnce
DefaultLimits ==
    /\ (GetsPrompt("market_summary") /\ request.params.limit = Absent)
          => (PromptAsksFor(5) /\ Len(call'.plan) = 1)
    /\ (GetsPrompt("find_arbitrage") /\ request.params.keyword # Absent
          /\ request.params.limit = Absent)
          => (PromptAsksFor(10) /\ call'.plan = <<>>)

\* C18: prompts/get fails, with no client operation started and nothing
\* sent upstream, when market_id is absent for analyze_market, keyword is
\* absent for find_arbitrage, or the name is unknown; market_summary takes
\* no required argument and asks for 5 markets by default, find_arbitrage
\* for 10
C18_PromptArguments == [][MissingArgumentFails /\ DefaultLimits]_vars
\* analyze_market without market_id has been answered with the failure, and
\* the client has never been asked
C18_Witness ==
    /\ mpc = "write"
    /\ request.method = "prompts/get"
    /\ request.params.name = "analyze_market"
    /\ request.params.market_id = Absent
    /\ "error" \in DOMAIN Unwrap(response).result
    /\ metrics = NewMetrics
    /\ market_cache = EmptyMap
    /\ single_market_cache = EmptyMap

(***************************************************************************)
(* Properties of the retry delays and of the fetch metrics (SpecFetch).    *)
(***************************************************************************)
\* C19: the sleep that follows failed attempt k lasts base_delay * 2^k, so
\* that a call with max_retries = 3 all of whose attempts fail has slept
\* base_delay * (2^1 + 2^2) in all
C19_ExponentialBackoff ==
    \A t \in Tasks :
        LET events == task[t].events
        IN /\ \A i \in Sleeps(events) :
                 /\ i - 1 \in Attempts(events)
                 /\ events[i - 1][2] < config.max_retries
                 /\ events[i][2] = config.retry_delay * 2 ^ events[i - 1][2]
           /\ (FetchFailed(t) /\ config.max_retries = 3) =>
                 /\ Sleeps(events) = {2, 4}
                 /\ events[2][2] + events[4][2] = config.retry_delay * (2 + 4)
C19_Witness ==
    /\ mpc = "fetcher"
    /\ config.max_retries = 3
    /\ FetchFailed(MainTask)
    /\ task[MainTask].events[2] = <<"sleep", 200>>
    /\ task[MainTask].events[4] = <<"sleep", 400>>

\* the fetch call the caller made has returned
FetchReturned ==
    /\ mpc = "fetcher"
    /\ call.active
    /\ task[MainTask].pc = "ret"
\* what the call added to a field of the metrics
Added(field) == metrics[field] - call.metrics_before[field]
\* every GET request of the call ended in a failure
EveryAttemptFailed ==
    Len(task[MainTask].failures) = Cardinality(Attempts(task[MainTask].events))

\* C20: a fetch call adds one to requests-total; it adds one to
\* requests-failed if every attempt failed and nothing otherwise; it updates
\* the average response time once if an attempt succeeded and not at all
\* otherwise
C20_FetchMetrics ==
    /\ (mpc = "fetcher" /\ call.active) =>
          /\ Added("api_requests_total") \in {0, 1}
          /\ Added("api_requests_failed") \in {0, 1}
          /\ Added("avg_updates") \in {0, 1}
    /\ FetchReturned =>
          /\ Added("api_requests_total") = 1
          /\ Added("api_requests_failed") = IF EveryAttemptFailed THEN 1 ELSE 0
          /\ Added("avg_updates") = IF EveryAttemptFailed THEN 0 ELSE 1
          /\ EveryAttemptFailed <=> ~Unwrap(task[MainTask].ret).ok
\* the second call failed on its second attempt, after a first call that
\* succeeded: of the two requests counted, one failed and one was timed
C20_Witness ==
    /\ FetchReturned
    /\ config.max_retries = 2
    /\ EveryAttemptFailed
    /\ Len(task[MainTask].failures) = 2
    /\ metrics.api_requests_total = 2
    /\ metrics.api_requests_failed = 1
    /\ metrics.avg_updates = 1

(***************************************************************************)
(* Properties of the retry loop's end (SpecFetchLive).                     *)
(***************************************************************************)
FetchCalled == mpc = "fetcher" /\ call.active
\* the fetch has a body that decoded
FetchSucceeded(t) ==
    IsSome(task[t].fetch_result) /\ Unwrap(task[t].fetch_result).ok
\* no call has sent more than max_retries GET requests; a call that has a
\* decoded body got it from its last GET request, every one before that
\* failed, nothing was sent or slept since, and the body is what it returns
StopsAtFirstSuccess ==
    \A t \in Tasks :
        LET events == task[t].events
        IN /\ Cardinality(Attempts(events)) <= config.max_retries
           /\ FetchSucceeded(t) =>
                 /\ events # <<>>
                 /\ Last(events) = <<"attempt", Len(task[t].failures) + 1>>
                 /\ Cardinality(Attempts(events)) = Len(task[t].failures) + 1
                 /\ task[t].pc \in {"decoded", "ret"}
                 /\ task[t].pc = "ret" => task[t].ret = task[t].fetch_result

\* C21: a fetch call makes at most max_retries attempts and stops at the
\* first one that returns a 2xx body that decodes: it returns that value
\* with no further attempt and no further sleep; and when every HTTP
\* exchange ends, every fetch call returns
C21_StopsAndReturns == []StopsAtFirstSuccess /\ (FetchCalled ~> FetchReturned)
\* the third attempt succeeded after two failures and two sleeps
C21_Witness ==
    /\ FetchReturned
    /\ config.max_retries = 3
    /\ FetchSucceeded(MainTask)
    /\ Len(task[MainTask].failures) = 2
    /\ Len(task[MainTask].events) = 5

(***************************************************************************)
(* Properties of the query caches (SpecClient).                            *)
(***************************************************************************)
\* the caller's get_markets / get_market_by_id has come to its end
QueryReturned ==
    /\ mpc = "caller"
    /\ call.active
    /\ task[MainTask].pc = "ret"
\* the cache of the query in hand holds its key, in an entry no older than
\* the TTL
PresentAndNotExpired(t) ==
    LET q == task[t].query
        cache == IF q.kind = "markets" THEN market_cache ELSE single_market_cache
    IN /\ q.key \in DOMAIN cache
       /\ now - cache[q.key].timestamp <= config.cache_ttl

\* the lookup takes the hit path exactly when the key is present and not
\* expired
HitWhenFresh ==
    \A t \in Tasks :
        (config.cache_enabled /\ task[t].pc = "start" /\ task'[t].pc # "start")
            => /\ task'[t].pc \in {"hit", "miss"}
               /\ task'[t].pc = "hit" <=> PresentAndNotExpired(t)
\* a call that returns has recorded one hit and made no fetch call, or one
\* miss and one fetch call which, if it succeeded, was followed by the put
HitOrMiss ==
    (config.cache_enabled /\ QueryReturned) =>
        LET q == task[MainTask].query
            r == Unwrap(task[MainTask].ret)
        IN \/ /\ Added("cache_hits") = 1
              /\ Added("cache_misses") = 0
              /\ Added("api_requests_total") = 0
              /\ task[MainTask].events = <<>>
              /\ r = Ok(CacheOf(q)[q.key].data)
           \/ /\ Added("cache_hits") = 0
              /\ Added("cache_misses") = 1
              /\ Added("api_requests_total") = 1
              /\ r.ok => /\ q.key \in DOMAIN CacheOf(q)
                          /\ CacheOf(q)[q.key] = [data |-> r.data, timestamp |-> now]

\* C22: with caching enabled every get_markets / get_market_by_id call
\* records exactly one of a cache hit or a cache miss: a hit, with no fetch,
\* exactly when the key is present and not expired; otherwise a miss, then a
\* fetch and, if it succeeded, a put of the fetched value under the key
C22_HitOrMiss == [][HitWhenFresh /\ HitOrMiss]_vars
\* the second call is a hit on what the first one put
C22_Witness ==
    /\ QueryReturned
    /\ config.cache_enabled
    /\ Added("cache_hits") = 1
    /\ metrics.cache_misses = 1
    /\ metrics.api_requests_total = 1
    /\ now > CacheOf(task[MainTask].query)[task[MainTask].query.key].timestamp

\* C23: with caching disabled a get_markets / get_market_by_id call records
\* neither a cache hit nor a cache miss and leaves both query caches empty
C23_DisabledCacheBypassed ==
    (~config.cache_enabled /\ QueryReturned) =>
        /\ Added("cache_hits") = 0
        /\ Added("cache_misses") = 0
        /\ market_cache = EmptyMap
        /\ single_market_cache = EmptyMap
        /\ read_guards["market_cache"] = {}
        /\ read_guards["single_market_cache"] = {}

\* task t is between the call of make_request_with_retry and its return: in
\* an HTTP exchange, in a sleep between two, or at the metrics updates around
\* them
Fetching(t) ==
    task[t].pc \in {"fetch", "send", "http", "sleep", "decoded", "exhausted"}
GuardHolders == read_guards["market_cache"] \cup read_guards["single_market_cache"]

ChunkTasks == 1..ChunkLen(call.ids, call.pos)
\* the futures of the chunk have all returned and join_all is about to
Joined ==
    /\ mpc = "batch"
    /\ call.active
    /\ call.bpc = "join"
    /\ \A t \in ChunkTasks : task[t].pc = "ret"
\* the tasks that write a query cache in this step
Writers == {t \in Tasks : task[t].pc = "put" /\ task'[t].pc # "put"}

\* a step that writes a query cache is the step of one writer, taken while no
\* reader holds that cache, and it changes the writer's own key only
OneWriterNoReader ==
    (single_market_cache' # single_market_cache \/ Writers # {}) =>
        /\ Cardinality(Writers) = 1
        /\ read_guards["single_market_cache"] = {}
        /\ \A t \in Writers :
              /\ DOMAIN single_market_cache' =
                     DOMAIN single_market_cache \cup {task[t].query.key}
              /\ single_market_cache'[task[t].query.key].data =
                     Unwrap(task[t].fetch_result).data
              /\ \A k \in DOMAIN single_market_cache \ {task[t].query.key} :
                     single_market_cache'[k] = single_market_cache[k]
\* when the fetches of a chunk are over, every id that was fetched has its
\* entry, a market of that id which one of the futures returned
NoInsertLost ==
    (Joined /\ config.cache_enabled) =>
        \A t \in ChunkTasks :
            Unwrap(task[t].ret).ok =>
                /\ task[t].query.key \in DOMAIN single_market_cache
                /\ \E u \in ChunkTasks :
                      /\ task[u].query.key = task[t].query.key
                      /\ Unwrap(task[u].ret) =
                            Ok(single_market_cache[task[t].query.key].data)

\* C25: a query cache has many readers or one writer: it is written by one
\* task at a time and only while no reader holds it; so when the fetches of
\* a chunk complete concurrently with caching enabled, every id that was
\* fetched ends with its own entry in the single-market cache
C25_ReadersOrWriter == [][OneWriterNoReader /\ NoInsertLost]_vars
\* the future for m2 has fetched and waits for the write guard while the
\* future for m1 holds the read guard on its hit path
C25_Witness ==
    /\ mpc = "batch"
    /\ call.active
    /\ call.ids = <<"m1", "m2">>
    /\ task[1].pc = "hit"
    /\ 1 \in read_guards["single_market_cache"]
    /\ task[2].pc = "put"

\* C26: with caching enabled, a get_markets_batch call on a new client that
\* is given the same id twice in one chunk makes one upstream fetch call
C26_DuplicateIdFetchedOnce ==
    (mpc = "batch" /\ IsSome(prev) /\ config.cache_enabled
        /\ metrics.cache_hits + metrics.cache_misses = 2
        /\ Unwrap(prev).ids \in {<<"m1", "m1">>, <<"m2", "m2">>})
            => Unwrap(prev).fetches = 1

(***************************************************************************)
(* Properties of the collection cache key (SpecSearch).                    *)
(***************************************************************************)
\* with caching enabled, the second of two collection queries has come to
\* its end; the first went upstream and succeeded, and the second started
\* within the TTL of what the first put
SecondCollectionQuery ==
    /\ mpc = "searcher"
    /\ call.active
    /\ task[MainTask].pc = "ret"
    /\ config.cache_enabled
    /\ IsSome(prev)
    /\ call.cop.query.kind = "markets"
    /\ Unwrap(prev).cop.query.kind = "markets"
    /\ FirstFetched
    /\ call.start - Unwrap(prev).end <= config.cache_ttl
\* the two queries send the same parameters upstream
SameParameters == call.cop.query.url = Unwrap(prev).cop.query.url

\* C27: two collection queries use the same cache entry exactly when their
\* effective parameters are equal; search_markets calls that differ in the
\* keyword only share one entry and one upstream call within the TTL, each
\* filtering the cached page by its own keyword
C27_KeyIsParameters ==
    SecondCollectionQuery =>
        /\ call.cop.query.key = Unwrap(prev).cop.query.key <=> SameParameters
        /\ SameParameters =>
              LET page == market_cache[call.cop.query.key].data
              IN /\ CompletedCall.fetches = 0
                 /\ Added("cache_hits") = 1
                 /\ CompletedCall.result = Finish(call.cop, Ok(page))
                 /\ Unwrap(prev).result = Finish(Unwrap(prev).cop, Ok(page))
\* "x" after "el": one entry, one fetch call, and two different results
C27_Witness ==
    /\ SecondCollectionQuery
    /\ Unwrap(prev).cop = OpSearchMarkets(Chars("el"), None)
    /\ call.cop = OpSearchMarkets(Chars("x"), None)
    /\ metrics.api_requests_total = 1
    /\ Cardinality(DOMAIN market_cache) = 1
    /\ CompletedCall.result = Ok(<<MarketA("m1")>>)
    /\ Unwrap(prev).result = Ok(<<MarketA("m1"), MarketB("m2")>>)

(***************************************************************************)
(* Properties of the chunks of get_markets_batch (SpecChunks).             *)
(***************************************************************************)
\* the ids from the chunk in hand on, and the futures a chunk of them has
IdsLeft == Len(call.ids) - call.pos + 1
FuturesDue == IF IdsLeft < BATCH_SIZE THEN IdsLeft ELSE BATCH_SIZE
\* the futures of a chunk are being joined: the chunk starts at a multiple
\* of ten, every earlier id has its result, and the futures are those of the
\* next ten ids, or of all that are left, in the order of the ids
ChunkInHand ==
    (mpc = "chunks" /\ call.active /\ call.bpc = "join") =>
        /\ (call.pos - 1) % BATCH_SIZE = 0
        /\ Len(call.results) = call.pos - 1
        /\ {t \in Tasks : task[t].pc # "idle"} = 1..FuturesDue
        /\ \A t \in 1..FuturesDue :
              task[t].query = MarketQuery(call.ids[call.pos + t - 1])
\* a step that starts a fetch of the batch starts every fetch of the chunk,
\* and none of an earlier chunk is still on its way
StartedTogether ==
    (mpc = "chunks" /\ \E t \in Tasks : task[t].pc = "idle" /\ task'[t].pc # "idle") =>
        /\ \A t \in Tasks : task[t].pc = "idle"
        /\ \A t \in Tasks : task'[t].pc \in {"idle", "start"}
        /\ call'.bpc = "join"
\* the batch has returned: one result per id, in the order of the ids
ResultsInOrder ==
    (mpc = "chunks" /\ IsSome(prev)) =>
        /\ Len(Unwrap(prev).results) = Len(Unwrap(prev).ids)
        /\ \A i \in DOMAIN Unwrap(prev).results :
              Unwrap(prev).results[i].ok =>
                  Unwrap(prev).results[i].data.id = Unwrap(prev).ids[i]

\* C28: get_markets_batch takes the ids in consecutive chunks of at most
\* ten, in input order; the fetches of a chunk are started together, and no
\* fetch of the next chunk starts before every fetch of this one has its
\* result
C28_ChunksOfTen == [][ChunkInHand' /\ StartedTogether /\ ResultsInOrder']_vars
\* eleven ids: the second chunk has its one future under way, after ten
\* results of which some are errors
C28_Witness ==
    /\ mpc = "chunks"
    /\ call.active
    /\ call.bpc = "join"
    /\ call.pos = BATCH_SIZE + 1
    /\ task[1].pc = "http"
    /\ task[1].query = MarketQuery("m1")
    /\ call.results[1].ok
    /\ ~call.results[2].ok
    /\ Len(call.all_markets) = BATCH_SIZE - 1

\* the chunks an id list is cut into
NumChunks(ids) == (Len(ids) + BATCH_SIZE - 1) \div BATCH_SIZE

\* C29: the 100 ms delay is inserted between chunks only: a batch of any
\* number of ids, exact multiples of ten included, sleeps once less than it
\* has chunks, and not after its last chunk
C29_DelaysBetweenChunks ==
    (mpc = "chunks" /\ IsSome(prev)) =>
        Unwrap(prev).sleeps = NumChunks(Unwrap(prev).ids) - 1

(***************************************************************************)
(* Properties of failing resource reads (SpecResource).                    *)
(***************************************************************************)
\* the URI of the request in hand is none that read_resource serves
UnknownUri ==
    /\ ReadsResource
    /\ request.params.uri \notin {"markets:active", "markets:trending"}
    /\ ~StartsWithMarket(request.params.uri)
\* the read of such a URI fails as an unknown resource in the one step,
\* without a call into the client
UnknownReadFails ==
    UnknownUri =>
        /\ response' = Some(Envelope(request.id,
                              ResourceError(AnyhowDisplay("Unknown resource URI: ",
                                                          request.params.uri))))
        /\ ~call'.active
        /\ UNCHANGED <<clientVars, resource_cache>>
\* the step gives a resources/read its response, and the response is a failure
ReadFailed ==
    /\ request.method = "resources/read"
    /\ response = None
    /\ IsSome(response')
    /\ "error" \in DOMAIN Unwrap(response').result
\* the resource cache changes in no step but the one that gives a
\* resources/read its successful response
StoredOnSuccess ==
    resource_cache' # resource_cache =>
        /\ request.method = "resources/read"
        /\ response = None
        /\ IsSome(response')
        /\ "error" \notin DOMAIN Unwrap(response').result

\* C30: read_resource for a URI that is neither markets:active nor
\* markets:trending nor market:* fails as an unknown resource, calls neither
\* the client nor upstream and leaves the resource cache as it was; no
\* failing read_resource changes the resource cache
C30_FailedReadKeepsCache ==
    [][/\ UnknownReadFails
       /\ ReadFailed => UNCHANGED resource_cache
       /\ StoredOnSuccess]_vars
\* the unknown URI was read after market:m1 had been stored: the failure is
\* about to be written, the entry is in place and no fetch call was added
C30_Witness ==
    /\ mpc = "write"
    /\ request.method = "resources/read"
    /\ request.params.uri = "bogus:uri"
    /\ IsSome(response)
    /\ "error" \in DOMAIN Unwrap(response).result
    /\ DOMAIN resource_cache = {"market:m1"}
    /\ metrics.api_requests_total = 1

(***************************************************************************)
(* Properties of the resource cache's writes and expiry (SpecResource).    *)
(***************************************************************************)
\* C31: read_resource stores a rendered payload only when caching is enabled
\* by configuration: with caching disabled the resource cache is never
\* written and stays empty
C31_ResourceCacheGated == ~config.cache_enabled => resource_cache = EmptyMap

\* a read of a URI that has an entry is answered with the stored text, and
\* without a call, while now <= expires_at; later it calls the client
ServedUntilExpiry ==
    (ReadsResource /\ request.params.uri \in DOMAIN resource_cache) =>
        LET uri == request.params.uri
        IN IF now <= resource_cache[uri].expires_at
           THEN /\ response' = Some(Envelope(request.id,
                                   ResourceContents(uri, resource_cache[uri].data)))
                /\ ~call'.active
                /\ UNCHANGED resource_cache
           ELSE /\ call'.active
                /\ response' = None
\* an insert stores the new text for the URI read, stamped now and expiring
\* at now + TTL; an entry it replaces had expired, the others stay
StoredWithTtl ==
    resource_cache' # resource_cache =>
        LET uri == request.params.uri
        IN /\ DOMAIN resource_cache' = DOMAIN resource_cache \cup {uri}
           /\ resource_cache'[uri].timestamp = now
           /\ resource_cache'[uri].expires_at = now + config.resource_cache_ttl
           /\ response' = Some(Envelope(request.id,
                                 ResourceContents(uri, resource_cache'[uri].data)))
           /\ uri \in DOMAIN resource_cache =>
                 resource_cache[uri].expires_at < now
           /\ \A other \in DOMAIN resource_cache \ {uri} :
                 resource_cache'[other] = resource_cache[other]

\* C32: a resource cache entry inserted at time t with TTL d has expires_at
\* = t + d and is served exactly while now <= expires_at; a read after expiry
\* renders again and replaces the entry, with a new expires_at
C32_ResourceExpiry == [][ServedUntilExpiry /\ StoredWithTtl]_vars
\* the second read of market:m1 came after the entry of the first had
\* expired, and has replaced it
C32_Witness ==
    /\ mpc = "write"
    /\ line_no = 2
    /\ request.params.uri = "market:m1"
    /\ metrics.api_requests_total = 2
    /\ metrics.api_requests_failed = 0
    /\ DOMAIN resource_cache = {"market:m1"}
    /\ resource_cache["market:m1"].timestamp > 0
    /\ resource_cache["market:m1"].expires_at
          = resource_cache["market:m1"].timestamp + config.resource_cache_ttl
    /\ response = Some(Envelope(request.id,
                      ResourceContents("market:m1",
                                       resource_cache["market:m1"].data)))

(***************************************************************************)
(* Properties of the query caches' expiry and refresh (SpecClient).        *)
(***************************************************************************)
\* the seconds since the entry of the query in hand was created
EntryAge(t) == now - CacheOf(task[t].query)[task[t].query.key].timestamp
\* the lookup of a key that has an entry takes the miss path exactly when the
\* entry is older than the TTL
ExpiredWhenOlder ==
    \A t \in Tasks :
        (/\ config.cache_enabled
         /\ task[t].pc = "start"
         /\ task'[t].pc # "start"
         /\ task[t].query.key \in DOMAIN CacheOf(task[t].query))
            => (task'[t].pc = "miss" <=> EntryAge(t) > config.cache_ttl)
\* a call served from the cache returns an entry no older than the TTL
NeverStale ==
    (config.cache_enabled /\ QueryReturned /\ Added("cache_hits") = 1) =>
        /\ task[MainTask].query.key \in DOMAIN CacheOf(task[MainTask].query)
        /\ EntryAge(MainTask) <= config.cache_ttl
        /\ Added("api_requests_total") = 0
\* a call that ends with an entry older than the TTL under its key went
\* upstream, failed and returns the error
ErrorNotStale ==
    (/\ config.cache_enabled
     /\ QueryReturned
     /\ task[MainTask].query.key \in DOMAIN CacheOf(task[MainTask].query)
     /\ EntryAge(MainTask) > config.cache_ttl)
        => /\ ~Unwrap(task[MainTask].ret).ok
           /\ Added("cache_hits") = 0
           /\ Added("api_requests_total") = 1

\* C33: a query-cache entry is expired exactly when the time since its
\* creation is greater than the TTL: get_markets / get_market_by_id never
\* return cached data older than the TTL, and when the entry is expired and
\* the fetch fails the call returns the error, not the stale value
C33_ExpiredIsOlder == [][ExpiredWhenOlder /\ NeverStale' /\ ErrorNotStale']_vars
\* the second call found the entry of the first expired, and its fetch
\* failed
C33_Witness ==
    /\ QueryReturned
    /\ config.cache_enabled
    /\ task[MainTask].query.key \in DOMAIN CacheOf(task[MainTask].query)
    /\ EntryAge(MainTask) > config.cache_ttl
    /\ ~Unwrap(task[MainTask].ret).ok
    /\ metrics.api_requests_total = 2

(***************************************************************************)
(* Properties of the refresh of a query-cache entry (SpecRefresh).         *)
(***************************************************************************)
\* the step is the put of task t: the whole entry under the task's key is
\* the fetched value, created now
PutBy(t, cache, key) ==
    /\ task[t].pc = "put"
    /\ task'[t].pc = "ret"
    /\ task[t].query.key = key
    /\ cache[key] = [data |-> Unwrap(task[t].fetch_result).data,
                     timestamp |-> now]
\* no entry is removed, and an entry changes in no step but a put under its
\* key, which replaces it after it has expired
ReplacedByPut ==
    /\ \A key \in DOMAIN market_cache :
          /\ key \in DOMAIN market_cache'
          /\ market_cache'[key] # market_cache[key] =>
                /\ \E t \in Tasks : PutBy(t, market_cache', key)
                /\ now - market_cache[key].timestamp > config.cache_ttl
    /\ \A key \in DOMAIN single_market_cache :
          /\ key \in DOMAIN single_market_cache'
          /\ single_market_cache'[key] # single_market_cache[key] =>
                /\ \E t \in Tasks : PutBy(t, single_market_cache', key)
                /\ now - single_market_cache[key].timestamp > config.cache_ttl
\* the caller's second query has returned, and it is the same as the first;
\* the first found the entry of time 0 under its key expired, and the second
\* was started within the TTL of the end of the first
AfterRefresh ==
    /\ QueryReturned
    /\ ncalls = 1
    /\ IsSome(prev)
    /\ Unwrap(prev).cop = call.cop
    /\ call.cop = OpGetMarketById("m1")
    /\ Unwrap(prev).start > config.cache_ttl
    /\ call.start - Unwrap(prev).end <= config.cache_ttl
\* the first went upstream once, and if it succeeded the second is a hit on
\* the value the first fetched
HitOnRefreshed ==
    AfterRefresh =>
        /\ Unwrap(prev).fetches = 1
        /\ Unwrap(prev).result.ok =>
              /\ Added("cache_hits") = 1
              /\ Added("api_requests_total") = 0
              /\ Unwrap(task[MainTask].ret) = Unwrap(prev).result
              /\ single_market_cache["m1"] =
                    [data |-> Unwrap(prev).result.data,
                     timestamp |-> Unwrap(prev).end]

\* C34: a refresh is an unconditional overwrite: after an entry has expired
\* the next successful identical query fetches upstream once and replaces
\* the whole entry, value and creation time, so that the following identical
\* query within the new TTL is a hit on the new value; no entry is removed or
\* changed otherwise
C34_RefreshOverwrites == [][ReplacedByPut /\ HitOnRefreshed']_vars
\* the entry MarketA of time 0 has been replaced by MarketB, which the
\* second query is served
C34_Witness ==
    /\ AfterRefresh
    /\ Unwrap(prev).result = Ok(MarketB("m1"))
    /\ Added("cache_hits") = 1
    /\ Unwrap(task[MainTask].ret) = Ok(MarketB("m1"))
    /\ single_market_cache["m1"].timestamp > config.cache_ttl

(***************************************************************************)
(* Properties of the counters (SpecClient, Spec).                          *)
(***************************************************************************)
Counters ==
    {"api_requests_total", "api_requests_failed", "cache_hits", "cache_misses"}
\* no step lowers a counter of the client's block or of the server's
CountersGrow ==
    \A field \in Counters :
        /\ metrics'[field] >= metrics[field]
        /\ server_metrics'[field] >= server_metrics[field]
\* no more requests have failed than were made
FailedWithinTotal ==
    /\ metrics.api_requests_failed <= metrics.api_requests_total
    /\ server_metrics.api_requests_failed <= server_metrics.api_requests_total

\* C35: the counters requests-total, requests-failed, cache-hits and
\* cache-misses never decrease, and in every reachable state requests-failed
\* is at most requests-total
C35_CountersMonotone == []FailedWithinTotal /\ [][CountersGrow]_vars
\* a fetch call that failed after one that succeeded
C35_Witness ==
    /\ metrics.api_requests_total = 2
    /\ metrics.api_requests_failed = 1
    /\ metrics.cache_misses = 2
    /\ metrics.avg_updates = 1
    /\ IsSome(prev)
    /\ Unwrap(prev).result.ok

\* C36: there is one counters block: what the metrics-reporting operation
\* reports, between two requests, are the fetch calls, the failed fetch
\* calls, the cache hits and the cache misses that the fetcher and the
\* query call sites have counted
C36_OneCountersBlock ==
    mpc = "read" =>
        \A field \in Counters : get_metrics[field] = metrics[field]

(***************************************************************************)
(* Properties of a fetch without attempts (SpecFetch).                     *)
(***************************************************************************)
\* C37: with max_retries = 0 a fetch call makes no HTTP attempt and no
\* sleep, returns the synthesized network failure "All retry attempts
\* failed", and counts as one request and one failed request
C37_NoAttemptStillCounted ==
    (FetchReturned /\ config.max_retries = 0) =>
        /\ task[MainTask].events = <<>>
        /\ Unwrap(task[MainTask].ret) =
              Err(network_error("All retry attempts failed"))
        /\ Added("api_requests_total") = 1
        /\ Added("api_requests_failed") = 1
        /\ Added("avg_updates") = 0
        /\ now = call.start
\* the second such call has returned: two requests, both failed
C37_Witness ==
    /\ FetchReturned
    /\ config.max_retries = 0
    /\ ~Unwrap(task[MainTask].ret).ok
    /\ metrics.api_requests_total = 2
    /\ metrics.api_requests_failed = 2

(***************************************************************************)
(* Properties of a query whose fetch failed (SpecClient).                  *)
(***************************************************************************)
\* C38: a failed fetch leaves both query caches unchanged: when get_markets
\* or get_market_by_id returns an error the two maps are what they were when
\* the call began, an expired entry under the call's key included
C38_FailureKeepsCaches ==
    (QueryReturned /\ ~Unwrap(task[MainTask].ret).ok) =>
        <<market_cache, single_market_cache>> = call.caches_before
\* the call found the entry of its key expired, its fetch failed, and the
\* entry is in place
C38_Witness ==
    /\ QueryReturned
    /\ config.cache_enabled
    /\ ~Unwrap(task[MainTask].ret).ok
    /\ call.cop = OpGetMarketById("m1")
    /\ "m1" \in DOMAIN single_market_cache
    /\ is_expired(single_market_cache["m1"], config.cache_ttl)
    /\ single_market_cache = call.caches_before[2]

(***************************************************************************)
(* Properties of the locks in a chunk (SpecBatchLive).                     *)
(***************************************************************************)
\* the metrics lock is taken in no step that writes a cache, and a cache
\* guard is taken in no step that holds the metrics lock: a step that
\* updates the metrics leaves the caches as they are and takes no guard
LockOrder ==
    metrics' # metrics =>
        /\ UNCHANGED <<market_cache, single_market_cache>>
        /\ \A c \in DOMAIN read_guards : read_guards'[c] \subseteq read_guards[c]
\* the futures of a chunk come to their results, and the batch returns
BatchCompletes ==
    /\ \A t \in 1..MaxIds : (task[t].pc = "start") ~> (task[t].pc = "ret")
    /\ (mpc = "batch" /\ call.active) ~> (IsSome(prev) /\ ~call.active)

\* C39: the get_market_by_id calls of one chunk never deadlock on the cache
\* and metrics locks: the metrics lock is requested while at most a cache
\* read guard is held and never the other way round, and as every HTTP
\* attempt returns every call of the chunk and the whole get_markets_batch
\* complete
C39_ChunkCompletes == [][LockOrder]_vars /\ BatchCompletes
\* the batch of m1 and m2 on the client that had fetched m1 has returned:
\* one future was a hit under its read guard, the other has put m2
C39_Witness ==
    /\ mpc = "batch"
    /\ IsSome(prev)
    /\ Unwrap(prev).ids = <<"m1", "m2">>
    /\ metrics.cache_hits = 1
    /\ "m2" \in DOMAIN single_market_cache
    /\ \A c \in DOMAIN read_guards : read_guards[c] = {}

(***************************************************************************)
(* Properties of the end of main's loop (SpecLive).                        *)
(***************************************************************************)
\* the loop ends in no step but the one in which read_line reports the end
\* of the stream or an error, at the top of the loop; nothing is pending
\* then, and the step changes nothing else
EndsAtRead ==
    mpc' = "done" =>
        /\ mpc = "read"
        /\ response = None
        /\ ~call.active
        /\ \A t \in Tasks : task[t].pc = "idle"
        /\ UNCHANGED <<output, line_no, undecoded, clientVars, resource_cache>>
\* the loop body of a line ends with the response handle_mcp_request
\* returned for it, if it returned one, written as one whole line
BodyEndsWritten ==
    (mpc' = "next" /\ mpc # "next") =>
        /\ response' = None
        /\ ~call'.active
        /\ IF Route(request).t = "none"
           THEN {i \in DOMAIN output' : output'[i].line = line_no} = {}
           ELSE /\ mpc = "write"
                /\ IsSome(response)
                /\ output' = Append(output, OutputLine(Unwrap(response)))
\* a line is read at the top of the loop only, after the body of the line
\* before it has ended
ReadsAtTop == line_no' # line_no => (mpc = "read" /\ request = NoRequest)
\* no step is taken once the loop has ended
NothingAfterEnd == mpc # "done"

====
